---- MODULE Spec2Model ----
(***************************************************************************)
(* Model of the orchestration layer of spectronaut-webui:                  *)
(*   main.py     process_direct, process_convert, the Start/Abort handlers *)
(*   helpers.py  validate_filetable, prepare_datafiles(_async), the        *)
(*               progress reader, the extraction workers, run_cmd and the  *)
(*               subprocess registry (track_subprocess_cleanup).           *)
(*                                                                         *)
(* Concurrency domains:                                                    *)
(*   - the asyncio event loop: the workflow task (pc) and the UI handlers. *)
(*     pc values in SuspendedPcs are awaits; the other non-terminal values *)
(*     are positions inside a synchronous stretch of the coroutine, where  *)
(*     no other event-loop callback (AbortClick) can run;                  *)
(*   - the to_thread thread running prepare_datafiles (pcC);               *)
(*   - the reader thread _progress_reader (pcR);                           *)
(*   - the extraction worker processes (futures);                          *)
(*   - the external-tool child processes (calls).                          *)
(***************************************************************************)
EXTENDS Integers, Sequences, FiniteSets, TLC

\* ---------------------------------------------------------------- bounds
\* longest filetable the UI state is drawn from
MaxFiles == 2

\* longest filetable whose condition file is written with edited metadata
MaxRows == 3

\* ---------------------------------------------------------------- types
\* main.py check_type: the five entry types
FileTypes == {"Thermo Raw", "Bruker D", "Bruker D Zip", "Folder", "File"}

\* value of a file-path form field: blank, a path that does not exist,
\* an existing file, and (after the workflow copied it) the copy in params/
FileVals == {"", "missing", "orig"}

Workflows == {"direct", "convert"}

\* the tasks that run a workflow operation concurrently (one per page or
\* browser client that clicked Start)
Tasks == {1, 2}

\* the optional parameter files process_direct copies (main.py 215-233)
OptionalFiles == {"go_file", "report_file", "mod_repository", "enzyme_database"}

\* a DataFileEntry as add_to_datafiles builds it; id is the row's identity
\* (its distinct original path), path/name are what prepare_datafiles mutates
\* replicate, condition and fraction are the free-text metadata, '' at first
Entry(k, t) == [id |-> k, type |-> t, path |-> "orig", name |-> "name",
                replicate |-> "", condition |-> "", fraction |-> ""]

RECURSIVE SeqsUpTo(_, _)
SeqsUpTo(S, n) ==
    IF n = 0 THEN {<<>>}
    ELSE LET shorter == SeqsUpTo(S, n - 1)
         IN  shorter \cup {Append(s, x) : s \in {q \in shorter : Len(q) = n - 1}, x \in S}

\* filetables with entry k of the given type sequence
TableOf(ts) == [k \in 1..Len(ts) |-> Entry(k, ts[k])]

\* ------------------------------------------------- helpers.validate_filetable
TypesOf(filetable) == {filetable[k].type : k \in 1..Len(filetable)}

\* variant: the first two branches collapsed, any single type is accepted
validate_filetable_any_single_type(filetable) ==
    LET types == TypesOf(filetable)
    IN  IF Cardinality(types) = 1 THEN TRUE
        ELSE IF Cardinality(types) = 2 /\ "Bruker D" \in types
                /\ "Bruker D Zip" \in types THEN TRUE
        ELSE FALSE

validate_filetable(filetable) ==
    LET types == TypesOf(filetable)
    IN  IF Cardinality(types) = 1 /\ "Thermo Raw" \in types THEN TRUE
        ELSE IF Cardinality(types) = 1
                /\ ("Bruker D" \in types \/ "Bruker D Zip" \in types) THEN TRUE
        ELSE IF Cardinality(types) = 2 /\ "Bruker D" \in types
                /\ "Bruker D Zip" \in types THEN TRUE
        ELSE FALSE

\* ---------------------------------------------------------------- state
VARIABLES
    \* UI state (main.py convert_page / directdia_page)
    datafiles,        \* the page's file table (list of DataFileEntry)
    widgets,          \* values of the form fields
    running_task,     \* running_task['task'] is not None
    start_enabled, abort_enabled, ok_visible, not_ok_visible,
    notify,           \* last ui.notify message
    \* file system
    fs_dirs,          \* existing directories among out, data, params
    fs_copied,        \* parameter files copied into params/
    fs_condition,     \* rows of the condition file in params/ (<<>>: not written)
    \* the registry as a whole, with the workflow operations of several tasks
    task_pc,          \* per task: position of its decorated workflow operation
    _active_processes, \* helpers._active_processes: handle -> list of children
    children,         \* every child spawned: spawner, state, who signalled it
    \* workflow task
    workflow,         \* which process_* coroutine runs: "direct" | "convert"
    pc,               \* position of the workflow coroutine
    args,             \* the args dict handed to process_*
    stage,            \* which run_cmd the workflow is in: activate|run|deactivate
    fileidx,          \* loop variable i of process_convert (1-based)
    total,            \* len(args['datafiles']) read by process_convert
    success,          \* local variable success
    result,           \* value returned by the last run_cmd
    rc,               \* value process_* handed back to _on_start_click
    log,              \* messages the workflow coroutine logged
    calls,            \* every run_cmd invocation issued, with its child
    registry,         \* _active_processes: is there an entry for the task, and its list
    \* prepare_datafiles (coordinator thread), reader thread, workers
    pcC, pcR,
    cancel_event, should_exit,
    futures,          \* per zip task: pending | running | finished | cancelled
    zip_tasks,        \* indices (into datafiles) of the Bruker D Zip entries
    worker_result,    \* per zip task: what _extract_zip_worker returned
    progress_q,       \* the manager queue
    manager_alive,
    done_counter, errors,
    consumed,         \* history: per entry, how many of its Done messages the reader handled
    progress_visible, progress_value,
    thread_result,    \* outcome of the to_thread call: none|ok|error|cancelled
    pending_exc       \* exception in flight through prepare_datafiles' finally

uiVars == <<widgets, running_task, start_enabled, abort_enabled,
            ok_visible, not_ok_visible, notify>>
taskVars == <<task_pc, _active_processes, children>>
\* what lies outside the page's own workflow: the file system and the
\* operations of the other tasks
fsVars == <<fs_dirs, fs_copied, fs_condition, taskVars>>
wfVars == <<workflow, pc, args, stage, fileidx, total, success, result, rc, log>>
procVars == <<calls, registry>>
prepVars == <<pcC, pcR, cancel_event, should_exit, futures, zip_tasks,
              worker_result, progress_q, manager_alive, done_counter, errors,
              consumed, progress_visible, progress_value, thread_result,
              pending_exc>>
vars == <<datafiles, uiVars, fsVars, wfVars, procVars, prepVars>>

\* awaits of the workflow coroutine: the points where the event loop can run
\* another callback and where task.cancel() raises CancelledError
SuspendedPcs == {"preparing", "writing", "building", "spawn", "stream", "wait",
                 "timeout_wait", "spawn_cancel_wait", "cancel_wait",
                 "cleanup_sleep", "cleanup_wait"}

\* no entry for the task in _active_processes
NoEntry == [present |-> FALSE, procs |-> <<>>]

\* args and the form: a text value is "" (blank, or a key the dict does not
\* have) or a token for the text; a checkbox value is "True" or "False";
\* args_list is the local args_list of process_*, kept with the dict it is
\* built from
NoArgs == [protocol |-> "", output_directory |-> "", properties_file |-> "",
           fasta_file |-> "", experiment_name |-> "", condition_file |-> "",
           opt |-> [f \in OptionalFiles |-> ""],
           temp_directory |-> "", verbose |-> "False", parquet |-> "False",
           segmented |-> "False", error_term |-> "False",
           args_list |-> <<>>]

\* the state before the Start click, given the table and the form values
InitWith(tables, forms, dirsets) ==
    /\ datafiles \in tables
    /\ widgets \in forms
    /\ fs_dirs \in dirsets
    /\ fs_copied = {}
    /\ fs_condition = <<>>
    /\ task_pc = [t \in Tasks |-> "idle"]
    /\ _active_processes = <<>>
    /\ children = <<>>
    /\ running_task = FALSE
    /\ start_enabled = TRUE
    /\ abort_enabled = FALSE
    /\ ok_visible = FALSE
    /\ not_ok_visible = FALSE
    /\ notify = ""
    /\ workflow = "none"
    /\ pc = "idle"
    /\ args = NoArgs
    /\ stage = "none"
    /\ fileidx = 0
    /\ total = 0
    /\ success = FALSE
    /\ result = FALSE
    /\ rc = "unset"
    /\ log = <<>>
    /\ calls = <<>>
    /\ registry = NoEntry
    /\ pcC = "not_started"
    /\ pcR = "not_started"
    /\ cancel_event = FALSE
    /\ should_exit = FALSE
    /\ futures = <<>>
    /\ zip_tasks = <<>>
    /\ worker_result = <<>>
    /\ progress_q = <<>>
    /\ manager_alive = FALSE
    /\ done_counter = 0
    /\ errors = <<>>
    /\ consumed = [k \in 1..MaxFiles |-> 0]
    /\ progress_visible = FALSE
    /\ progress_value = 0
    /\ thread_result = "none"
    /\ pending_exc = "none"
\* ------------------------------------------------ end of the workflow task
\* variant: the entry is removed on a return only, not when the operation
\* ends by the cancellation
Finish_pop_on_return_only(value) ==
    /\ rc' = value
    /\ ok_visible' = (value = "True")
    /\ not_ok_visible' = (value # "True")
    /\ running_task' = FALSE
    /\ start_enabled' = TRUE
    /\ abort_enabled' = FALSE
    /\ registry' = IF value = "cancelled" THEN registry ELSE NoEntry
    /\ pc' = "ended"

\* variant: the page is reset after a return only, not when the operation
\* ends by the cancellation
Finish_reset_on_return_only(value) ==
    /\ rc' = value
    /\ ok_visible' = (value = "True")
    /\ not_ok_visible' = (value # "True")
    /\ running_task' = (value = "cancelled")
    /\ start_enabled' = (value # "cancelled")
    /\ abort_enabled' = (value = "cancelled")
    /\ registry' = NoEntry
    /\ pc' = "ended"

\* track_subprocess_cleanup's finally (helpers.py 41-44) followed by the tail
\* of _on_start_click (main.py 563-579 / 880-896) once process_* has ended
\* with `value`: "None" | "True" | "False" (returned) or "cancelled" (raised)
Finish(value) ==
    /\ rc' = value
    /\ ok_visible' = (value = "True")
    /\ not_ok_visible' = (value # "True")
    /\ running_task' = FALSE
    /\ start_enabled' = TRUE
    /\ abort_enabled' = FALSE
    /\ registry' = NoEntry
    /\ pc' = "ended"

\* ------------------------------------------------------ Validating stage
\* The synchronous head of process_direct (main.py 178-239): the value is what
\* it leaves behind: whether it rejected, the args, the directories, the copies
CopyIfExists(v) == IF v = "orig" THEN "copied" ELSE v

DirectValidating(a, ft, dirs) ==
    LET stay == [rejected |-> TRUE, args |-> a, dirs |-> dirs, copied |-> {},
                 notify |-> "", log |-> <<>>]
    IN  IF ft = <<>> THEN [stay EXCEPT !.notify = "No files to process"]
        ELSE IF a.output_directory = ""
        THEN [stay EXCEPT !.notify = "Output directory not specified"]
        ELSE LET dirs1 == dirs \cup {"out"}
             IN  IF a.properties_file = ""
                 THEN [stay EXCEPT !.dirs = dirs1,
                                   !.notify = "Properties file not specified"]
                 ELSE IF a.fasta_file = ""
                 THEN [stay EXCEPT !.dirs = dirs1,
                                   !.notify = "FASTA file not specified"]
                 ELSE LET a1 == [a EXCEPT
                                 !.experiment_name =
                                     IF @ = "" THEN "stem" ELSE @,
                                 !.properties_file = CopyIfExists(@),
                                 !.fasta_file = CopyIfExists(@),
                                 !.opt = [f \in OptionalFiles |-> CopyIfExists(@[f])]]
                          copied == {f \in {"properties_file", "fasta_file"} : a[f] = "orig"}
                                    \cup {f \in OptionalFiles : a.opt[f] = "orig"}
                          done == [rejected |-> FALSE, args |-> a1,
                                   dirs |-> dirs1 \cup {"data", "params"},
                                   copied |-> copied,
                                   notify |-> "Preparing data files...",
                                   log |-> <<>>]
                      IN  IF ~validate_filetable(ft)
                          THEN [done EXCEPT !.rejected = TRUE, !.notify = "",
                                            !.log = <<"Invalid file table">>]
                          ELSE done

\* The synchronous head of process_convert (main.py 297-322); it has no
\* validate_filetable call
ConvertValidating(a, ft, dirs) ==
    LET stay == [rejected |-> TRUE, args |-> a, dirs |-> dirs, copied |-> {},
                 notify |-> "", log |-> <<>>]
    IN  IF ft = <<>> THEN [stay EXCEPT !.notify = "No files to process"]
        ELSE IF a.output_directory = ""
        THEN [stay EXCEPT !.notify = "Output directory not specified"]
        ELSE [rejected |-> FALSE,
              args |-> [a EXCEPT !.properties_file = CopyIfExists(@)],
              dirs |-> dirs \cup {"out", "data", "params"},
              copied |-> {f \in {"properties_file"} : a[f] = "orig"},
              notify |-> "Preparing data files...",
              log |-> <<>>]

\* the args dict _on_start_click builds (main.py 543-552 / 853-869): the
\* convert page has no FASTA, experiment-name or optional-file fields
\* On the DirectDIA page 'segmented' is bound to the checkbox element itself
\* (main.py 864: mark_segment, without .value), on the convert page to its
\* value (main.py 549)
BuildArgs(wf, w) ==
    IF wf = "direct" THEN [w EXCEPT !.protocol = "direct",
                                    !.segmented = "checkbox element"]
    ELSE [NoArgs EXCEPT !.protocol = "convert",
                        !.properties_file = w.properties_file,
                        !.output_directory = w.output_directory,
                        !.temp_directory = w.temp_directory,
                        !.verbose = w.verbose,
                        !.segmented = w.segmented,
                        !.error_term = w.error_term]

\* _on_start_click up to the first await of process_* (or to its return when
\* the Validating stage rejects)
StartClick(wf) ==
    /\ pc = "idle"
    /\ start_enabled
    /\ LET a0 == BuildArgs(wf, widgets)
           v == IF wf = "direct" THEN DirectValidating(a0, datafiles, fs_dirs)
                ELSE ConvertValidating(a0, datafiles, fs_dirs)
       IN  /\ workflow' = wf
           /\ args' = v.args
           /\ fs_dirs' = v.dirs
           /\ fs_copied' = v.copied
           /\ notify' = v.notify
           /\ log' = v.log
           /\ IF v.rejected
              THEN /\ Finish("None")
                   /\ UNCHANGED <<pcC>>
              ELSE \* await prepare_datafiles_async -> asyncio.to_thread
                   /\ pc' = "preparing"
                   /\ pcC' = "scan"
                   /\ registry' = [present |-> TRUE, procs |-> <<>>]
                   /\ running_task' = TRUE
                   /\ start_enabled' = FALSE
                   /\ abort_enabled' = TRUE
                   /\ UNCHANGED <<ok_visible, not_ok_visible, rc>>
    /\ UNCHANGED <<datafiles, widgets, fs_condition, taskVars, stage, fileidx, total,
                   success, result, calls, pcR, cancel_event, should_exit, futures, zip_tasks,
                   worker_result, progress_q, manager_alive, done_counter,
                   errors, consumed, progress_visible, progress_value,
                   thread_result, pending_exc>>

\* --------------------------------------- helpers.prepare_datafiles (thread)
\* ProcessPoolExecutor(max_workers=min(len(zip_tasks), 8))
MaxWorkers == 8

Min(a, b) == IF a < b THEN a ELSE b

\* indices of the entries of one type, in table order
RECURSIVE IndicesOfType(_, _, _)
IndicesOfType(ft, t, k) ==
    IF k > Len(ft) THEN <<>>
    ELSE (IF ft[k].type = t THEN <<k>> ELSE <<>>) \o IndicesOfType(ft, t, k + 1)

Settled(f) == f \in {"finished", "cancelled"}

\* variant: cancelling also takes the running tasks down
CancelAll_running_too(fs) ==
    [t \in DOMAIN fs |-> IF fs[t] \in {"pending", "running"} THEN "cancelled" ELSE fs[t]]

\* fut.cancel() on every future: only a future that has not started is cancelled
CancelAll(fs) == [t \in DOMAIN fs |-> IF fs[t] = "pending" THEN "cancelled" ELSE fs[t]]

\* variant: the manager queue and the reader thread are set up before the
\* marker checks
PrepStart_setup_before_scan ==
    /\ pcC = "scan"
    /\ \E markers_ok \in BOOLEAN :
         LET brukers == IndicesOfType(datafiles, "Bruker D", 1)
             zips == IndicesOfType(datafiles, "Bruker D Zip", 1)
         IN  /\ (brukers = <<>>) => markers_ok
             /\ IF ~markers_ok
                THEN /\ thread_result' = "error"
                     /\ pcC' = "done"
                     /\ manager_alive' = (zips # <<>>)
                     /\ pcR' = IF zips # <<>> THEN "check" ELSE pcR
                     /\ UNCHANGED <<futures, zip_tasks, worker_result,
                                    progress_visible, progress_value>>
                ELSE IF zips = <<>>
                THEN /\ thread_result' = "ok"
                     /\ pcC' = "done"
                     /\ UNCHANGED <<pcR, futures, zip_tasks, worker_result,
                                    manager_alive, progress_visible, progress_value>>
                ELSE /\ zip_tasks' = zips
                     /\ manager_alive' = TRUE
                     /\ progress_visible' = TRUE
                     /\ progress_value' = 0
                     /\ pcR' = "check"
                     /\ futures' = [t \in 1..Len(zips) |-> "pending"]
                     /\ worker_result' = [t \in 1..Len(zips) |-> "none"]
                     /\ pcC' = "poll"
                     /\ UNCHANGED thread_result
    /\ UNCHANGED <<datafiles, uiVars, fsVars, wfVars, procVars, cancel_event,
                   should_exit, progress_q, done_counter, errors, consumed,
                   pending_exc>>

\* helpers.py 170-241: the Bruker D marker checks, then (if there are archives)
\* the manager queue, the counters, the reader thread, the pool and the submits.
\* markers_ok is the outcome of the analysis.tdf checks of the Bruker D folders.
PrepStart ==
    /\ pcC = "scan"
    /\ \E markers_ok \in BOOLEAN :
         LET brukers == IndicesOfType(datafiles, "Bruker D", 1)
             zips == IndicesOfType(datafiles, "Bruker D Zip", 1)
         IN  /\ (brukers = <<>>) => markers_ok
             /\ IF ~markers_ok
                THEN \* raise FileNotFoundError
                     /\ thread_result' = "error"
                     /\ pcC' = "done"
                     /\ UNCHANGED <<pcR, futures, zip_tasks, worker_result,
                                    manager_alive, progress_visible, progress_value>>
                ELSE IF zips = <<>>
                THEN /\ thread_result' = "ok"
                     /\ pcC' = "done"
                     /\ UNCHANGED <<pcR, futures, zip_tasks, worker_result,
                                    manager_alive, progress_visible, progress_value>>
                ELSE /\ zip_tasks' = zips
                     /\ manager_alive' = TRUE
                     /\ progress_visible' = TRUE
                     /\ progress_value' = 0
                     /\ pcR' = "check"
                     /\ futures' = [t \in 1..Len(zips) |-> "pending"]
                     /\ worker_result' = [t \in 1..Len(zips) |-> "none"]
                     /\ pcC' = "poll"
                     /\ UNCHANGED thread_result
    /\ UNCHANGED <<datafiles, uiVars, fsVars, wfVars, procVars, cancel_event,
                   should_exit, progress_q, done_counter, errors, consumed,
                   pending_exc>>

\* helpers.py 244-260: one round of the polling loop that ends it: either no
\* future is pending any more, or the cancel event is set (cancel the futures,
\* raise CancelledError, cancel again in the handler). A round that finds
\* neither changes nothing.
PrepPoll ==
    /\ pcC = "poll"
    /\ IF \A t \in DOMAIN futures : Settled(futures[t])
       THEN /\ pending_exc' = "none"
            /\ UNCHANGED futures
       ELSE /\ cancel_event
            /\ futures' = CancelAll(futures)
            /\ pending_exc' = "cancelled"
    /\ pcC' = "finally"
    /\ UNCHANGED <<datafiles, uiVars, fsVars, wfVars, procVars, pcR, cancel_event,
                   should_exit, zip_tasks, worker_result, progress_q,
                   manager_alive, done_counter, errors, consumed,
                   progress_visible, progress_value, thread_result>>

\* helpers.py 263-271: should_exit[0] = True, cancel the not-started futures
PrepFinallyFlag ==
    /\ pcC = "finally"
    /\ should_exit' = TRUE
    /\ futures' = CancelAll(futures)
    /\ pcC' = "finally_wait"
    /\ UNCHANGED <<datafiles, uiVars, fsVars, wfVars, procVars, pcR, cancel_event,
                   zip_tasks, worker_result, progress_q, manager_alive,
                   done_counter, errors, consumed, progress_visible,
                   progress_value, thread_result, pending_exc>>

\* helpers.py 275-279: concurrent.futures.wait(futures, timeout=5) returns when
\* every future has settled or when the five seconds are over
PrepFinallyWait ==
    /\ pcC = "finally_wait"
    /\ pcC' = "shutdown"
    /\ UNCHANGED <<datafiles, uiVars, fsVars, wfVars, procVars, pcR, cancel_event,
                   should_exit, futures, zip_tasks, worker_result, progress_q,
                   manager_alive, done_counter, errors, consumed,
                   progress_visible, progress_value, thread_result, pending_exc>>

\* variant: the manager is shut down right after the pool, before the join
PrepShutdown_then_manager ==
    /\ pcC = "shutdown"
    /\ \A t \in DOMAIN futures : Settled(futures[t])
    /\ manager_alive' = FALSE
    /\ progress_q' = <<>>
    /\ pcC' = "join"
    /\ UNCHANGED <<datafiles, uiVars, fsVars, wfVars, procVars, pcR, cancel_event,
                   should_exit, futures, zip_tasks, worker_result,
                   done_counter, errors, consumed,
                   progress_visible, progress_value, thread_result, pending_exc>>

\* variant: the pool is shut down without waiting for its running workers
PrepShutdown_no_wait ==
    /\ pcC = "shutdown"
    /\ pcC' = "join"
    /\ UNCHANGED <<datafiles, uiVars, fsVars, wfVars, procVars, pcR, cancel_event,
                   should_exit, futures, zip_tasks, worker_result, progress_q,
                   manager_alive, done_counter, errors, consumed,
                   progress_visible, progress_value, thread_result, pending_exc>>

\* helpers.py 282-283: executor.shutdown(wait=True) returns once no worker runs
PrepShutdown ==
    /\ pcC = "shutdown"
    /\ \A t \in DOMAIN futures : Settled(futures[t])
    /\ pcC' = "join"
    /\ UNCHANGED <<datafiles, uiVars, fsVars, wfVars, procVars, pcR, cancel_event,
                   should_exit, futures, zip_tasks, worker_result, progress_q,
                   manager_alive, done_counter, errors, consumed,
                   progress_visible, progress_value, thread_result, pending_exc>>

\* helpers.py 286: reader_thread.join(timeout=2) returns when the reader has
\* exited or when the two seconds are over
PrepJoin ==
    /\ pcC = "join"
    /\ pcC' = "manager_shutdown"
    /\ UNCHANGED <<datafiles, uiVars, fsVars, wfVars, procVars, pcR, cancel_event,
                   should_exit, futures, zip_tasks, worker_result, progress_q,
                   manager_alive, done_counter, errors, consumed,
                   progress_visible, progress_value, thread_result, pending_exc>>

\* variant: the progress sink is hidden on the normal way out only, not when
\* an exception is in flight or the aggregate error is raised
PrepManagerShutdown_hide_on_success ==
    /\ pcC = "manager_shutdown"
    /\ manager_alive' = FALSE
    /\ progress_q' = <<>>
    /\ progress_visible' = (pending_exc = "cancelled" \/ errors # <<>>)
    /\ thread_result' = IF pending_exc = "cancelled" THEN "cancelled"
                        ELSE IF errors # <<>> THEN "error" ELSE "ok"
    /\ pcC' = "done"
    /\ UNCHANGED <<datafiles, uiVars, fsVars, wfVars, procVars, pcR, cancel_event,
                   should_exit, futures, zip_tasks, worker_result,
                   done_counter, errors, consumed, progress_value, pending_exc>>

\* helpers.py 289-297: manager.shutdown() (the queue and whatever it still
\* holds go with the manager process), progress.visible = False, then the
\* exception in flight is re-raised, or the aggregate error is raised if
\* errors is non-empty, or the function returns
PrepManagerShutdown ==
    /\ pcC = "manager_shutdown"
    /\ manager_alive' = FALSE
    /\ progress_q' = <<>>
    /\ progress_visible' = FALSE
    /\ thread_result' = IF pending_exc = "cancelled" THEN "cancelled"
                        ELSE IF errors # <<>> THEN "error" ELSE "ok"
    /\ pcC' = "done"
    /\ UNCHANGED <<datafiles, uiVars, fsVars, wfVars, procVars, pcR, cancel_event,
                   should_exit, futures, zip_tasks, worker_result,
                   done_counter, errors, consumed, progress_value, pending_exc>>

\* ------------------------------------------- helpers._progress_reader (thread)
\* variant: the loop condition looks at the counter only
ReaderCheck_ignores_exit_flag ==
    /\ pcR = "check"
    /\ pcR' = IF done_counter < Len(zip_tasks) THEN "get" ELSE "exited"
    /\ UNCHANGED <<datafiles, uiVars, fsVars, wfVars, procVars, pcC, cancel_event,
                   should_exit, futures, zip_tasks, worker_result, progress_q,
                   manager_alive, done_counter, errors, consumed,
                   progress_visible, progress_value, thread_result, pending_exc>>

\* helpers.py 208: the loop condition
ReaderCheck ==
    /\ pcR = "check"
    /\ pcR' = IF done_counter < Len(zip_tasks) /\ ~should_exit THEN "get" ELSE "exited"
    /\ UNCHANGED <<datafiles, uiVars, fsVars, wfVars, procVars, pcC, cancel_event,
                   should_exit, futures, zip_tasks, worker_result, progress_q,
                   manager_alive, done_counter, errors, consumed,
                   progress_visible, progress_value, thread_result, pending_exc>>

\* helpers.py 209-230: progress_q.get(timeout=1) and the handling of the item.
\* An empty queue (timeout) or a closed manager (exception) goes back to the
\* loop condition. A Done message whose index is no longer in the filetable
\* makes filetable[idx] raise IndexError, which ends the thread.
ReaderGet ==
    /\ pcR = "get"
    /\ IF manager_alive /\ progress_q # <<>>
       THEN LET item == Head(progress_q)
            IN  /\ progress_q' = Tail(progress_q)
                /\ pcR' = IF item.typ = "done" /\ item.idx \notin DOMAIN datafiles
                          THEN "exited" ELSE "check"
                /\ IF item.typ = "done" /\ item.idx \notin DOMAIN datafiles
                   THEN UNCHANGED <<datafiles, errors, done_counter,
                                    progress_value, consumed>>
                   ELSE IF item.typ = "done"
                   THEN /\ IF item.success
                           THEN /\ datafiles' = [datafiles EXCEPT
                                                 ![item.idx].path = item.real_path,
                                                 ![item.idx].name = "stem"]
                                /\ UNCHANGED errors
                           ELSE /\ errors' = Append(errors, item.idx)
                                /\ UNCHANGED datafiles
                        /\ done_counter' = done_counter + 1
                        /\ progress_value' = done_counter + 1
                        /\ consumed' = [consumed EXCEPT ![item.idx] = @ + 1]
                   ELSE UNCHANGED <<datafiles, errors, done_counter,
                                    progress_value, consumed>>
       ELSE /\ pcR' = "check"
            /\ UNCHANGED <<datafiles, progress_q, errors, done_counter,
                           progress_value, consumed>>
    /\ UNCHANGED <<uiVars, fsVars, wfVars, procVars, pcC, cancel_event,
                   should_exit, futures, zip_tasks, worker_result,
                   manager_alive, progress_visible, thread_result, pending_exc>>

\* ------------------------------------- helpers._extract_zip_worker (process)
\* a pool process picks the task up: the future can no longer be cancelled, and
\* the worker puts its Progress message (helpers.py 109)
WorkerStart(t) ==
    /\ t \in DOMAIN futures
    /\ futures[t] = "pending"
    /\ Cardinality({u \in DOMAIN futures : futures[u] = "running"})
          < Min(Len(zip_tasks), MaxWorkers)
    /\ futures' = [futures EXCEPT ![t] = "running"]
    /\ progress_q' = Append(progress_q, [typ |-> "progress", idx |-> zip_tasks[t],
                                         success |-> TRUE, real_path |-> ""])
    /\ UNCHANGED <<datafiles, uiVars, fsVars, wfVars, procVars, pcC, pcR,
                   cancel_event, should_exit, zip_tasks, worker_result,
                   manager_alive, done_counter, errors, consumed,
                   progress_visible, progress_value, thread_result, pending_exc>>

\* variant: a worker that fails returns without a Done message
WorkerFinish_silent_failure(t) ==
    /\ t \in DOMAIN futures
    /\ futures[t] = "running"
    /\ \E ok \in BOOLEAN :
         /\ worker_result' = [worker_result EXCEPT ![t] = IF ok THEN "ok" ELSE "failed"]
         /\ progress_q' = IF ok
                          THEN Append(progress_q,
                                  [typ |-> "done", idx |-> zip_tasks[t],
                                   success |-> TRUE, real_path |-> "extracted"])
                          ELSE progress_q
    /\ futures' = [futures EXCEPT ![t] = "finished"]
    /\ UNCHANGED <<datafiles, uiVars, fsVars, wfVars, procVars, pcC, pcR,
                   cancel_event, should_exit, zip_tasks, manager_alive,
                   done_counter, errors, consumed, progress_visible,
                   progress_value, thread_result, pending_exc>>

\* helpers.py 111-125: extraction and marker check, the Done message, the return
WorkerFinish(t) ==
    /\ t \in DOMAIN futures
    /\ futures[t] = "running"
    /\ \E ok \in BOOLEAN :
         /\ worker_result' = [worker_result EXCEPT ![t] = IF ok THEN "ok" ELSE "failed"]
         /\ progress_q' = Append(progress_q,
                [typ |-> "done", idx |-> zip_tasks[t], success |-> ok,
                 real_path |-> IF ok THEN "extracted" ELSE ""])
    /\ futures' = [futures EXCEPT ![t] = "finished"]
    /\ UNCHANGED <<datafiles, uiVars, fsVars, wfVars, procVars, pcC, pcR,
                   cancel_event, should_exit, zip_tasks, manager_alive,
                   done_counter, errors, consumed, progress_visible,
                   progress_value, thread_result, pending_exc>>

\* ------------------------------------------------ workflow task: Preparing
\* main.py 241-249 / 320-328 resumed by the end of the to_thread call
PrepareDone ==
    /\ pc = "preparing"
    /\ thread_result # "none"
    /\ IF thread_result = "ok"
       THEN /\ IF workflow = "direct"
               THEN \* await asyncio.to_thread(write_conditon_file, ...)
                    /\ pc' = "writing"
                    /\ UNCHANGED args
               ELSE \* args.pop('protocol'); await asyncio.to_thread(get_args, ...)
                    /\ pc' = "building"
                    /\ args' = [args EXCEPT !.protocol = ""]
            /\ UNCHANGED <<log, rc, uiVars, registry>>
       ELSE /\ log' = Append(log, "Error preparing data files")
            /\ Finish("None")
            /\ UNCHANGED <<args, widgets, notify>>
    /\ UNCHANGED <<datafiles, fsVars, workflow, stage, fileidx, total, success,
                   result, calls, prepVars>>

\* ------------------------------------------- helpers.write_conditon_file
\* str(n) of the replicate numbers the function assigns
Str(n) == <<"1", "2", "3", "4", "5", "6", "7", "8", "9">>[n]

\* s.strip().lower() on the replicate texts of the model
StripLower(s) ==
    CASE s = " " -> ""
      [] s = "None" -> "none"
      [] s = "NaN" -> "nan"
      [] OTHER -> s

\* helpers.py 147, 152: the test applied to str(replicate)
IsBlank(s) == StripLower(s) \in {"", "none", "nan"}

\* variant: the replicates are numbered per condition, whatever the fraction
write_conditon_file_per_condition(filetable) ==
    LET n == Len(filetable)
        fraction == [k \in 1..n |-> IF filetable[k].fraction = "" THEN "NA"
                                    ELSE filetable[k].fraction]
        condition == [k \in 1..n |-> IF filetable[k].condition = "" THEN "NA"
                                     ELSE filetable[k].condition]
        replicate0 == [k \in 1..n |-> filetable[k].replicate]
        replicate == IF \A k \in 1..n : IsBlank(replicate0[k])
                     THEN [k \in 1..n |->
                             Str(Cardinality({j \in 1..k :
                                                condition[j] = condition[k]}))]
                     ELSE replicate0
    IN  [rows |-> [k \in 1..n |-> [num |-> k, condition |-> condition[k],
                                   fraction |-> fraction[k],
                                   replicate |-> replicate[k]]],
         warning |-> \E k \in 1..n : IsBlank(replicate[k])]

\* helpers.py 139-162. rows: the '#', Condition, Fraction and Replicate columns
\* of the file written; warning: whether log.warning was called.
\* groupby(['fraction', 'condition']).transform(range(1, size + 1)) numbers the
\* rows of each group in table order.
write_conditon_file(filetable) ==
    LET n == Len(filetable)
        fraction == [k \in 1..n |-> IF filetable[k].fraction = "" THEN "NA"
                                    ELSE filetable[k].fraction]
        condition == [k \in 1..n |-> IF filetable[k].condition = "" THEN "NA"
                                     ELSE filetable[k].condition]
        replicate0 == [k \in 1..n |-> filetable[k].replicate]
        replicate == IF \A k \in 1..n : IsBlank(replicate0[k])
                     THEN [k \in 1..n |->
                             Str(Cardinality({j \in 1..k :
                                                /\ fraction[j] = fraction[k]
                                                /\ condition[j] = condition[k]}))]
                     ELSE replicate0
    IN  [rows |-> [k \in 1..n |-> [num |-> k, condition |-> condition[k],
                                   fraction |-> fraction[k],
                                   replicate |-> replicate[k]]],
         warning |-> \E k \in 1..n : IsBlank(replicate[k])]

\* main.py 251-259: the condition file is written (or the write raises)
WritingDone ==
    /\ pc = "writing"
    /\ \E written \in BOOLEAN :
         IF written
         THEN LET w == write_conditon_file(datafiles)
              IN  /\ fs_condition' = w.rows
                  /\ log' = IF w.warning
                            THEN Append(log, "Only some replicates were assigned")
                            ELSE log
                  /\ args' = [args EXCEPT !.condition_file = "condition.tsv"]
                  /\ pc' = "building"
                  /\ UNCHANGED <<rc, uiVars, registry>>
         ELSE /\ log' = Append(log, "Error writing condition file")
              /\ Finish("None")
              /\ UNCHANGED <<args, widgets, notify, fs_condition>>
    /\ UNCHANGED <<datafiles, fs_dirs, fs_copied, taskVars, workflow, stage, fileidx,
                   total, success, result, calls, prepVars>>

\* ------------------------------------------------ the argument vector
\* `if args.get(key):` (helpers.py 320-348): None (no such key), '' and False
\* are false; a non-empty str, a Path, True and any other object (a NiceGUI
\* element defines neither __bool__ nor __len__) are true
Truthy(v) == v \notin {"", "False"}

\* helpers.py 318-351: one list per option that is set, in this order; the
\* protocol is a bare word, the four boolean options a bare flag
_parse_args(a) ==
    LET Text(flag, v) == IF Truthy(v) THEN <<<<flag, v>>>> ELSE <<>>
        Word(v) == IF Truthy(v) THEN <<<<v>>>> ELSE <<>>
        Flag(flag, v) == IF Truthy(v) THEN <<<<flag>>>> ELSE <<>>
    IN  Text("-setTemp", a.temp_directory)
        \o Text("--importModRepository", a.opt["mod_repository"])
        \o Text("--importEnzymeDB", a.opt["enzyme_database"])
        \o Word(a.protocol)
        \o Text("-n", a.experiment_name)
        \o Text("-con", a.condition_file)
        \o Text("-s", a.properties_file)
        \o Text("-rs", a.opt["report_file"])
        \o Text("-fasta", a.fasta_file)
        \o Text("-go", a.opt["go_file"])
        \o Text("-o", a.output_directory)
        \o Flag("--verbose", a.verbose)
        \o Flag("--writeParquet", a.parquet)
        \o Flag("--terminateAfterError", a.error_term)
        \o Flag("-segmented", a.segmented)

\* functools.reduce(lambda i, j: i + j, lists, [])
RECURSIVE Concat(_)
Concat(lists) ==
    IF lists = <<>> THEN <<>> ELSE Head(lists) \o Concat(Tail(lists))

\* helpers.py 315-316
get_args(a) ==
    Concat(_parse_args(a))

\* helpers.py 353-358: the options, then -r <path> for every entry
get_full_args(a, filetable) ==
    get_args(a) \o Concat([k \in 1..Len(filetable) |-> <<"-r", filetable[k].path>>])

\* main.py 261-269 / 332-340: the argument list is built, the workflow logs
\* 'Activating Spectronaut' and calls run_cmd(activate)
BuildingDone ==
    /\ pc = "building"
    /\ args' = [args EXCEPT !.args_list = IF workflow = "direct"
                                          THEN get_full_args(args, datafiles)
                                          ELSE get_args(args)]
    /\ log' = Append(log, "Activating Spectronaut")
    /\ stage' = "activate"
    /\ pc' = "call"
    /\ UNCHANGED <<datafiles, uiVars, fsVars, workflow, fileidx, total,
                   success, result, rc, procVars, prepVars>>

\* ------------------------------------------------------- helpers.run_cmd
\* one run_cmd invocation and its child process:
\*   child    none (never spawned) | running | eof (stdout closed) | exited
\*   killed   process.kill() was delivered, termed  proc.terminate() was
\*   timeout  none (timeout=None) | armed | elapsed (the deadline has passed)
\*   cleanup  the signal calls _cleanup_processes made on the process, in order
\*   result   pending | true | false (returned) | cancelled (raised)
NewCall(cmd, i, child, res, timeout) ==
    [cmd |-> cmd, file |-> i, child |-> child, code |-> 0,
     killed |-> FALSE, termed |-> FALSE, timeout |-> timeout,
     cleanup |-> <<>>, result |-> res]

Cur == Len(calls)

Exited(c) == calls[c].child \in {"none", "exited"}

\* variant: a failed spawn still leaves a handle in the registry
RunCmdSpawnWith_register_failed(timeout) ==
    /\ pc = "call"
    /\ \E spawned \in BOOLEAN :
         IF spawned
         THEN /\ calls' = Append(calls, NewCall(stage, fileidx, "running", "pending",
                                                timeout))
              /\ pc' = "spawn"
              /\ UNCHANGED <<log, result, registry>>
         ELSE /\ calls' = Append(calls, NewCall(stage, fileidx, "none", "false",
                                                timeout))
              /\ log' = Append(log, "Cannot execute command")
              /\ result' = FALSE
              /\ registry' = IF registry.present
                             THEN [registry EXCEPT !.procs = Append(@, Cur + 1)]
                             ELSE registry
              /\ pc' = "returned"
    /\ UNCHANGED <<datafiles, uiVars, fsVars, workflow, args, stage, fileidx,
                   total, success, rc, prepVars>>

\* helpers.py 370-371 and 420-422: create_subprocess_exec either raises (logged,
\* run_cmd returns False) or starts the child and suspends
\* timeout is the timeout argument: "none" for timeout=None, "armed" for a number
RunCmdSpawnWith(timeout) ==
    /\ pc = "call"
    /\ \E spawned \in BOOLEAN :
         IF spawned
         THEN /\ calls' = Append(calls, NewCall(stage, fileidx, "running", "pending",
                                                timeout))
              /\ pc' = "spawn"
              /\ UNCHANGED <<log, result>>
         ELSE /\ calls' = Append(calls, NewCall(stage, fileidx, "none", "false",
                                                timeout))
              /\ log' = Append(log, "Cannot execute command")
              /\ result' = FALSE
              /\ pc' = "returned"
    /\ UNCHANGED <<datafiles, uiVars, fsVars, workflow, args, stage, fileidx,
                   total, success, rc, registry, prepVars>>

\* main.py 269-286 / 340-366: every run_cmd call of the two workflows leaves
\* the timeout at its default None
RunCmdSpawn ==
    RunCmdSpawnWith("none")

\* helpers.py 373 and 85-94: register_subprocess(process), then the streaming
SpawnDone ==
    /\ pc = "spawn"
    /\ registry' = IF registry.present
                   THEN [registry EXCEPT !.procs = Append(@, Cur)]
                   ELSE registry
    /\ pc' = "stream"
    /\ UNCHANGED <<datafiles, uiVars, fsVars, workflow, args, stage, fileidx,
                   total, success, result, rc, log, calls, prepVars>>

\* run_cmd returns rc == 0 (helpers.py 396-398)
ReturnCode ==
    /\ result' = (calls[Cur].code = 0)
    /\ calls' = [calls EXCEPT ![Cur].result = IF calls[Cur].code = 0 THEN "true" ELSE "false"]
    /\ pc' = "returned"

\* helpers.py 395-396: the output stream reached EOF; process.wait() returns at
\* once if the child has exited
StreamEOF ==
    /\ pc = "stream"
    /\ calls[Cur].child \in {"eof", "exited"}
    /\ IF calls[Cur].child = "exited"
       THEN ReturnCode
       ELSE /\ pc' = "wait"
            /\ UNCHANGED <<result, calls>>
    /\ UNCHANGED <<datafiles, uiVars, fsVars, workflow, args, stage, fileidx,
                   total, success, rc, log, registry, prepVars>>

\* helpers.py 396: process.wait() returns
WaitDone ==
    /\ pc = "wait"
    /\ calls[Cur].child = "exited"
    /\ ReturnCode
    /\ UNCHANGED <<datafiles, uiVars, fsVars, workflow, args, stage, fileidx,
                   total, success, rc, log, registry, prepVars>>

\* helpers.py 381 and 420-422: reading a line raises (StreamReader.readline
\* raises ValueError for a line longer than its limit); neither inner handler
\* matches, the outer `except Exception` logs and returns False. The child is
\* left as it is.
StreamRaise ==
    /\ pc = "stream"
    /\ result' = FALSE
    /\ calls' = [calls EXCEPT ![Cur].result = "false"]
    /\ log' = Append(log, "Cannot execute command")
    /\ pc' = "returned"
    /\ UNCHANGED <<datafiles, uiVars, fsVars, workflow, args, stage, fileidx,
                   total, success, rc, registry, prepVars>>

\* the external tool closes its output
ChildCloseStdout(c) ==
    /\ c \in DOMAIN calls
    /\ calls[c].child = "running"
    /\ calls' = [calls EXCEPT ![c].child = "eof"]
    /\ UNCHANGED <<datafiles, uiVars, fsVars, wfVars, registry, prepVars>>

\* the external tool exits: with its own exit code, or by the signal it got
ChildExit(c) ==
    /\ c \in DOMAIN calls
    /\ calls[c].child \in {"running", "eof"}
    /\ \E code \in {0, 1} :
         /\ calls[c].killed => code = 1
         /\ calls' = [calls EXCEPT ![c].child = "exited", ![c].code = code]
    /\ UNCHANGED <<datafiles, uiVars, fsVars, wfVars, registry, prepVars>>

prepVarsNoProgress == <<pcC, pcR, cancel_event, should_exit, futures, zip_tasks,
                        worker_result, progress_q, manager_alive, done_counter,
                        errors, consumed, thread_result, pending_exc>>

\* --------------------------- workflow task: Activating, Running, Deactivating
\* main.py 270-292 / 341-372: what the workflow does with the value run_cmd
\* returned, up to its next run_cmd call or its return
\* main.py 271 / 342, 347-354: activation succeeded
ActivationOk ==
    /\ success' = TRUE
    /\ rc' = rc
    /\ UNCHANGED <<uiVars, registry>>
    /\ IF workflow = "direct"
       THEN /\ log' = log \o <<"Spectronaut activated successfully",
                               "Launching Spectronaut">>
            /\ stage' = "run"
            /\ pc' = "call"
            /\ UNCHANGED <<fileidx, total, progress_visible, progress_value>>
       ELSE LET n == Len(datafiles)
            IN  /\ total' = n
                /\ progress_value' = 0
                /\ IF n = 0
                   THEN /\ log' = log \o <<"Spectronaut activated successfully",
                                           "Converting files",
                                           "Deactivating Spectronaut">>
                        /\ progress_visible' = FALSE
                        /\ stage' = "deactivate"
                        /\ UNCHANGED fileidx
                   ELSE /\ log' = log \o <<"Spectronaut activated successfully",
                                           "Converting files">>
                        /\ progress_visible' = TRUE
                        /\ stage' = "run"
                        /\ fileidx' = 1
                /\ pc' = "call"

\* main.py 272-274 / 343-345: activation failed, the workflow returns
ActivationFailed ==
    /\ log' = Append(log, "Cannot activate Spectronaut")
    /\ Finish("None")
    /\ UNCHANGED <<widgets, notify, success, stage, fileidx, total,
                   progress_visible, progress_value>>

\* variant: the activation result is not tested
AfterActivate_ignore_result ==
    /\ stage = "activate"
    /\ ActivationOk

AfterActivate ==
    /\ stage = "activate"
    /\ IF result THEN ActivationOk ELSE ActivationFailed

\* main.py 279-285 / 355-365 with `s` the new value of success: the log line,
\* the progress, and the next run_cmd call (next file, or deactivate)
RunStep(s) ==
    /\ success' = s
    /\ rc' = rc
    /\ pc' = "call"
    /\ UNCHANGED <<uiVars, registry, total>>
    /\ IF workflow = "direct"
       THEN /\ log' = log \o <<IF result THEN "Spectronaut exited successfully"
                               ELSE "Processing failed", "Deactivating Spectronaut">>
            /\ stage' = "deactivate"
            /\ UNCHANGED <<fileidx, progress_visible, progress_value>>
       ELSE /\ progress_value' = fileidx
            /\ IF fileidx < total
               THEN /\ log' = Append(log, IF result THEN "Converted successfully"
                                          ELSE "Processing failed")
                    /\ fileidx' = fileidx + 1
                    /\ UNCHANGED <<stage, progress_visible>>
               ELSE /\ log' = log \o <<IF result THEN "Converted successfully"
                                       ELSE "Processing failed",
                                       "Deactivating Spectronaut">>
                    /\ progress_visible' = FALSE
                    /\ stage' = "deactivate"
                    /\ UNCHANGED fileidx

\* variant: success = result instead of success = success and result
AfterRun_overwrite ==
    /\ stage = "run"
    /\ RunStep(result)

\* variant: the workflow returns at the first failed run step
AfterRun_return_on_failure ==
    /\ stage = "run"
    /\ IF result
       THEN RunStep(success /\ result)
       ELSE /\ log' = Append(log, "Processing failed")
            /\ Finish("False")
            /\ UNCHANGED <<widgets, notify, success, stage, fileidx, total,
                           progress_visible, progress_value>>

\* variant: a failed run step is issued again
AfterRun_retry ==
    /\ stage = "run"
    /\ IF result
       THEN RunStep(success /\ result)
       ELSE /\ log' = Append(log, "Processing failed")
            /\ success' = FALSE
            /\ pc' = "call"
            /\ UNCHANGED <<uiVars, registry, rc, stage, fileidx, total,
                           progress_visible, progress_value>>

\* main.py 278-285 / 352-365: success = success and result
AfterRun ==
    /\ stage = "run"
    /\ RunStep(success /\ result)

AfterDeactivate ==
    /\ stage = "deactivate"
    /\ log' = Append(log, IF result THEN "Spectronaut deactivated"
                          ELSE "Cannot deactivate Spectronaut")
    /\ Finish(IF success THEN "True" ELSE "False")
    /\ UNCHANGED <<widgets, notify, success, stage, fileidx, total,
                   progress_visible, progress_value>>

AfterCmd ==
    /\ pc = "returned"
    /\ (AfterActivate \/ AfterRun \/ AfterDeactivate)
    /\ UNCHANGED <<datafiles, fsVars, workflow, args, result, calls,
                   prepVarsNoProgress>>

\* ------------------------------------------------------------ cancellation
\* _on_start_click's except CancelledError, then its finally
FinishCancelled ==
    /\ log' = Append(log, "Processing aborted by user")
    /\ Finish("cancelled")

\* process.kill() in run_cmd's handlers (helpers.py 403, 413) on the children
\* in cs that have not exited
Kill(cs) == [c \in DOMAIN calls |->
               IF c \in cs /\ ~Exited(c) THEN [calls[c] EXCEPT !.killed = TRUE]
               ELSE calls[c]]

\* helpers.py 59-64: proc.terminate() on every process in cs with returncode
\* None; for those in `raised` the call raises and the exception is dropped
Terminate(cs, raised) ==
    [c \in DOMAIN calls |->
       IF c \in cs /\ ~Exited(c)
       THEN [calls[c] EXCEPT !.termed = @ \/ (c \notin raised),
                             !.cleanup = Append(@, IF c \in raised
                                                   THEN "terminate_raised"
                                                   ELSE "terminate")]
       ELSE calls[c]]

\* helpers.py 70-75: proc.kill() on every process in cs with returncode None,
\* `raised` as above
ForceKill(cs, raised) ==
    [c \in DOMAIN calls |->
       IF c \in cs /\ ~Exited(c)
       THEN [calls[c] EXCEPT !.killed = @ \/ (c \notin raised),
                             !.cleanup = Append(@, IF c \in raised
                                                   THEN "kill_raised"
                                                   ELSE "kill")]
       ELSE calls[c]]

Registered == {registry.procs[k] : k \in DOMAIN registry.procs}

\* _on_abort_click (main.py 603-610 / 912-919). With a running task,
\* task.cancel() raises CancelledError at the await the workflow is suspended in:
\*   preparing: prepare_datafiles_async sets cancel_event and re-raises, and
\*       process_* catches it and returns (helpers.py 309-313, main.py 244-246)
\*   writing, building: nothing catches it below the decorator
\*   spawn: create_subprocess_exec closes the transport (kills the child) and
\*       waits for it
\*   stream, wait: run_cmd kills the child and waits for it (helpers.py 409-418)
\*   spawn_cancel_wait, cancel_wait, timeout_wait: the wait inside the handler
\*       is abandoned, the decorator's handler runs
\*   cleanup_sleep, cleanup_wait: _cleanup_processes is abandoned
AbortClick ==
    /\ pc \in SuspendedPcs \cup {"idle", "ended"}
    /\ IF ~running_task
       THEN /\ notify' = "No processing running"
            /\ UNCHANGED <<datafiles, widgets, running_task, start_enabled,
                           abort_enabled, ok_visible, not_ok_visible, fsVars,
                           wfVars, procVars, prepVars>>
       ELSE /\ notify' = "Aborting..."
            /\ UNCHANGED <<datafiles, widgets, fsVars, workflow, args, stage,
                           fileidx, total, success, result>>
            /\ CASE pc = "preparing" ->
                      /\ cancel_event' = TRUE
                      /\ log' = log \o <<"Zip extraction cancelled by user",
                                         "Processing cancelled by user">>
                      /\ Finish("None")
                      /\ UNCHANGED <<calls, pcC, pcR, should_exit, futures,
                                     zip_tasks, worker_result, progress_q,
                                     manager_alive, done_counter, errors,
                                     consumed, progress_visible, progress_value,
                                     thread_result, pending_exc>>
                 [] pc \in {"writing", "building"} ->
                      /\ pc' = "cleanup_begin"
                      /\ UNCHANGED <<running_task, start_enabled, abort_enabled,
                                     ok_visible, not_ok_visible, rc, log,
                                     procVars, prepVars>>
                 [] pc \in {"spawn", "stream", "wait"} ->
                      /\ calls' = [Kill({Cur}) EXCEPT ![Cur].result = "cancelled"]
                      /\ pc' = IF Exited(Cur) THEN "cleanup_begin"
                               ELSE IF pc = "spawn" THEN "spawn_cancel_wait"
                               ELSE "cancel_wait"
                      /\ UNCHANGED <<running_task, start_enabled, abort_enabled,
                                     ok_visible, not_ok_visible, rc, log,
                                     registry, prepVars>>
                 [] pc \in {"spawn_cancel_wait", "cancel_wait", "timeout_wait"} ->
                      /\ calls' = [calls EXCEPT ![Cur].result = "cancelled"]
                      /\ pc' = "cleanup_begin"
                      /\ UNCHANGED <<running_task, start_enabled, abort_enabled,
                                     ok_visible, not_ok_visible, rc, log,
                                     registry, prepVars>>
                 [] pc \in {"cleanup_sleep", "cleanup_wait"} ->
                      /\ FinishCancelled
                      /\ UNCHANGED <<calls, prepVars>>

\* helpers.py 417 (and the transport's wait): the killed child has exited, the
\* CancelledError travels on to the decorator
CancelWaitDone ==
    /\ pc \in {"spawn_cancel_wait", "cancel_wait"}
    /\ Exited(Cur)
    /\ pc' = "cleanup_begin"
    /\ UNCHANGED <<datafiles, uiVars, fsVars, workflow, args, stage, fileidx,
                   total, success, result, rc, log, procVars, prepVars>>

\* helpers.py 37-39 and 48-67: the decorator's handler calls _cleanup_processes,
\* which returns at once for an empty list and otherwise terminates the
\* registered processes still alive and sleeps
CleanupBegin ==
    /\ pc = "cleanup_begin"
    /\ IF Registered = {}
       THEN /\ pc' = "cleanup_done"
            /\ UNCHANGED calls
       ELSE /\ \E raised \in SUBSET {c \in Registered : ~Exited(c)} :
                 calls' = Terminate(Registered, raised)
            /\ pc' = "cleanup_sleep"
    /\ UNCHANGED <<datafiles, uiVars, fsVars, workflow, args, stage, fileidx,
                   total, success, result, rc, log, registry, prepVars>>

\* variant: after the kill loop the cleanup returns without the wait loop
CleanupKill_skip_wait ==
    /\ pc = "cleanup_sleep"
    /\ \E raised \in SUBSET {c \in Registered : ~Exited(c)} :
         calls' = ForceKill(Registered, raised)
    /\ pc' = "cleanup_done"
    /\ UNCHANGED <<datafiles, uiVars, fsVars, workflow, args, stage, fileidx,
                   total, success, result, rc, log, registry, prepVars>>

\* helpers.py 69-83: after the grace period, kill what is still alive, then wait
\* for every registered process
\* (proc.wait() returns without suspending when the process has exited)
CleanupKill ==
    /\ pc = "cleanup_sleep"
    /\ IF \A c \in Registered : Exited(c)
       THEN /\ pc' = "cleanup_done"
            /\ UNCHANGED calls
       ELSE /\ \E raised \in SUBSET {c \in Registered : ~Exited(c)} :
                 calls' = ForceKill(Registered, raised)
            /\ pc' = "cleanup_wait"
    /\ UNCHANGED <<datafiles, uiVars, fsVars, workflow, args, stage, fileidx,
                   total, success, result, rc, log, registry, prepVars>>

\* helpers.py 78-83: the last of the waits has returned
CleanupWaitDone ==
    /\ pc = "cleanup_wait"
    /\ \A c \in Registered : Exited(c)
    /\ pc' = "cleanup_done"
    /\ UNCHANGED <<datafiles, uiVars, fsVars, workflow, args, stage, fileidx,
                   total, success, result, rc, log, calls, registry, prepVars>>

\* helpers.py 40-44: _cleanup_processes has returned; the decorator re-raises
\* and its finally removes the entry
CleanupDone ==
    /\ pc = "cleanup_done"
    /\ FinishCancelled
    /\ UNCHANGED <<datafiles, widgets, notify, fsVars, workflow, args, stage,
                   fileidx, total, success, result, calls, prepVars>>

\* ------------------------------------------------- run_cmd with a timeout
\* helpers.py 391 and 400-407: wait_for's timer fires while _stream_stdout is
\* still reading: the error is logged, the child killed, and run_cmd waits for
\* it. The deadline counts as elapsed before the exit unless the child had
\* already exited (with its output not yet read to the end).
StreamTimeout ==
    /\ pc = "stream"
    /\ calls[Cur].timeout = "armed"
    /\ log' = Append(log, "Command timed out")
    /\ IF Exited(Cur)
       THEN /\ calls' = [calls EXCEPT ![Cur].timeout = "late",
                                      ![Cur].result = "false"]
            /\ result' = FALSE
            /\ pc' = "returned"
       ELSE /\ calls' = [Kill({Cur}) EXCEPT ![Cur].timeout = "elapsed"]
            /\ pc' = "timeout_wait"
            /\ UNCHANGED result
    /\ UNCHANGED <<datafiles, uiVars, fsVars, workflow, args, stage, fileidx,
                   total, success, rc, registry, prepVars>>

\* helpers.py 406-407: the killed child has exited, run_cmd returns False
TimeoutWaitDone ==
    /\ pc = "timeout_wait"
    /\ Exited(Cur)
    /\ result' = FALSE
    /\ calls' = [calls EXCEPT ![Cur].result = "false"]
    /\ pc' = "returned"
    /\ UNCHANGED <<datafiles, uiVars, fsVars, workflow, args, stage, fileidx,
                   total, success, rc, log, registry, prepVars>>

\* helpers.py 391-392: wait_for has returned at the end of the stream and
\* dropped its timer; the deadline passes while run_cmd is in process.wait()
\* and the child is still alive. Nothing in run_cmd reacts to it.
DeadlinePasses ==
    /\ pc = "wait"
    /\ calls[Cur].timeout = "armed"
    /\ ~Exited(Cur)
    /\ calls' = [calls EXCEPT ![Cur].timeout = "elapsed"]
    /\ UNCHANGED <<datafiles, uiVars, fsVars, wfVars, registry, prepVars>>

\* ------------------------------------------ table handlers of the page
\* The buttons and the grid of the Parameters tab stay enabled while a workflow
\* runs (only Start and Abort are switched, main.py 874-875); a handler runs on
\* the event loop whenever the workflow task is suspended or absent.
\* main.py 773-784 / _clear_table: datafiles.clear(), table.update()
ClearTable ==
    /\ pc \in SuspendedPcs \cup {"idle", "ended"}
    /\ IF datafiles = <<>>
       THEN /\ notify' = "Data table is already empty"
            /\ UNCHANGED datafiles
       ELSE /\ datafiles' = <<>>
            /\ notify' = "Cleared all items from the data table"
    /\ UNCHANGED <<widgets, running_task, start_enabled, abort_enabled,
                   ok_visible, not_ok_visible, fsVars, wfVars, procVars,
                   prepVars>>

\* main.py 658-674 / _on_cell_value_changed: the entry whose path equals the
\* path of the edited grid row gets the new cell value. The grid holds the
\* rows as they were last sent to it, with the paths the entries were added
\* with; here the Condition cell of row k is set to a text.
CellEdit(k) ==
    /\ pc \in SuspendedPcs \cup {"idle", "ended"}
    /\ k \in DOMAIN datafiles
    /\ datafiles[k].path = "orig"
    /\ datafiles' = [datafiles EXCEPT ![k].condition = "A"]
    /\ UNCHANGED <<uiVars, fsVars, wfVars, procVars, prepVars>>

\* ------------------------------------------------------------ specification
\* the form values the workflow specification starts from
Form(out, prop, fasta, exp, go) ==
    [NoArgs EXCEPT !.output_directory = out, !.properties_file = prop,
                   !.fasta_file = fasta, !.experiment_name = exp,
                   !.opt = [f \in OptionalFiles |-> IF f = "go_file" THEN go ELSE ""]]

Forms == {Form("out", "orig", "orig", "", "")}

\* the type sequences the workflow specification draws its filetable from
TypeSeqs == SeqsUpTo({"Thermo Raw", "Bruker D", "Bruker D Zip"}, MaxFiles)

Tables == {TableOf(ts) : ts \in TypeSeqs}

Init == InitWith(Tables, Forms, {{}})

\* the two workflows as main.py runs them: run_cmd without a timeout; the
\* paths of run_cmd that need a timeout or a failing line read are in
\* SpecRunCmd below
Next ==
    \/ \E wf \in Workflows : StartClick(wf)
    \/ PrepStart
    \/ PrepPoll
    \/ PrepFinallyFlag
    \/ PrepFinallyWait
    \/ PrepShutdown
    \/ PrepJoin
    \/ PrepManagerShutdown
    \/ ReaderCheck
    \/ ReaderGet
    \/ \E t \in 1..MaxFiles : WorkerStart(t)
    \/ \E t \in 1..MaxFiles : WorkerFinish(t)
    \/ PrepareDone
    \/ WritingDone
    \/ BuildingDone
    \/ RunCmdSpawn
    \/ SpawnDone
    \/ StreamEOF
    \/ WaitDone
    \/ \E c \in 1..(MaxFiles + 2) : ChildCloseStdout(c)
    \/ \E c \in 1..(MaxFiles + 2) : ChildExit(c)
    \/ AfterCmd
    \/ AbortClick
    \/ CancelWaitDone
    \/ CleanupBegin
    \/ CleanupKill
    \/ CleanupWaitDone
    \/ CleanupDone

Spec == Init /\ [][Next]_vars

\* ---------------------------------------- specification of the run_cmd paths
\* process_direct (activate, run, deactivate) on filetables without archives,
\* where Preparing has nothing to extract, with every path of run_cmd: a line
\* read that raises, and a caller that passes a timeout or leaves it None
TablesRunCmd == {TableOf(ts) : ts \in SeqsUpTo({"Thermo Raw"}, MaxFiles)}

InitRunCmd == InitWith(TablesRunCmd, Forms, {{}})

NextRunCmd ==
    \/ StartClick("direct")
    \/ PrepStart
    \/ PrepareDone
    \/ WritingDone
    \/ BuildingDone
    \/ \E timeout \in {"none", "armed"} : RunCmdSpawnWith(timeout)
    \/ SpawnDone
    \/ StreamEOF
    \/ WaitDone
    \/ StreamRaise
    \/ StreamTimeout
    \/ TimeoutWaitDone
    \/ DeadlinePasses
    \/ \E c \in 1..(MaxFiles + 2) : ChildCloseStdout(c)
    \/ \E c \in 1..(MaxFiles + 2) : ChildExit(c)
    \/ AfterCmd
    \/ AbortClick
    \/ CancelWaitDone
    \/ CleanupBegin
    \/ CleanupKill
    \/ CleanupWaitDone
    \/ CleanupDone

SpecRunCmd == InitRunCmd /\ [][NextRunCmd]_vars

\* ------------------------------------- specification of the Validating stage
\* every form and every filetable up to MaxFiles entries, the output directory
\* existing or not; the only step is the Start click of either page
AllForms == {Form(out, prop, fasta, exp, go) :
                out \in {"", "out"}, prop \in FileVals, fasta \in FileVals,
                exp \in {"", "exp"}, go \in FileVals}

AllTables == {TableOf(ts) : ts \in SeqsUpTo(FileTypes, MaxFiles)}

InitValidating == InitWith(AllTables, AllForms, {{}, {"out"}})

NextValidating == \E wf \in Workflows : StartClick(wf)

SpecValidating == InitValidating /\ [][NextValidating]_vars

\* ------------------------------- specification of the argument building
\* both workflows up to the assembled argument list, on filetables without
\* archives, from every combination of blank / filled text fields and
\* unchecked / checked boxes of the form
Texts(v) == {"", v}

Checks == {"False", "True"}

ArgsForms ==
    {[NoArgs EXCEPT !.output_directory = "out",
                    !.properties_file = prop,
                    !.fasta_file = "orig",
                    !.experiment_name = exp,
                    !.temp_directory = temp,
                    !.opt = [f \in OptionalFiles |->
                               CASE f = "go_file" -> go
                                 [] f = "report_file" -> rs
                                 [] f = "mod_repository" -> modrep
                                 [] f = "enzyme_database" -> enzdb],
                    !.verbose = vb, !.parquet = pq, !.segmented = sg,
                    !.error_term = et] :
        prop \in Texts("orig"), exp \in Texts("exp"), temp \in Texts("tmp"),
        go \in Texts("orig"), rs \in Texts("orig"), modrep \in Texts("orig"),
        enzdb \in Texts("missing"),
        vb \in Checks, pq \in Checks, sg \in Checks, et \in Checks}

InitArgs == InitWith(TablesRunCmd, ArgsForms, {{}})

NextArgs ==
    \/ \E wf \in Workflows : StartClick(wf)
    \/ PrepStart
    \/ PrepareDone
    \/ WritingDone
    \/ BuildingDone

\* --------------------- specification of table edits during an extraction
\* process_direct through Preparing on tables of archives, with the table
\* handlers of the page
TablesZip == {TableOf(ts) : ts \in SeqsUpTo({"Bruker D Zip"}, MaxFiles)}

InitTableEdit == InitWith(TablesZip, Forms, {{}})

NextTableEdit ==
    \/ StartClick("direct")
    \/ PrepStart
    \/ PrepPoll
    \/ PrepFinallyFlag
    \/ PrepFinallyWait
    \/ PrepShutdown
    \/ PrepJoin
    \/ PrepManagerShutdown
    \/ ReaderCheck
    \/ ReaderGet
    \/ \E t \in 1..MaxFiles : WorkerStart(t)
    \/ \E t \in 1..MaxFiles : WorkerFinish(t)
    \/ PrepareDone
    \/ ClearTable
    \/ \E k \in 1..MaxFiles : CellEdit(k)

SpecTableEdit == InitTableEdit /\ [][NextTableEdit]_vars

SpecArgs == InitArgs /\ [][NextArgs]_vars

\* ------------------------------- specification of the condition file
\* process_direct up to the written condition file, on filetables without
\* archives whose metadata cells were edited: fraction and condition blank or
\* one of two texts, replicate blank, a text that counts as blank, or a number
MetaVals == [fraction : {"", "F1"}, condition : {"", "A"},
             replicate : {"", "None", "7"}]

MetaTables ==
    {[k \in 1..Len(ms) |-> [Entry(k, "Thermo Raw") EXCEPT
                                !.fraction = ms[k].fraction,
                                !.condition = ms[k].condition,
                                !.replicate = ms[k].replicate]] :
        ms \in SeqsUpTo(MetaVals, MaxRows)}

InitCondition == InitWith(MetaTables, Forms, {{}})

NextCondition ==
    \/ StartClick("direct")
    \/ PrepStart
    \/ PrepareDone
    \/ WritingDone

SpecCondition == InitCondition /\ [][NextCondition]_vars

\* ================================================================== claims
ActivationSucceeded == \E c \in DOMAIN calls : calls[c].cmd = "activate" /\ calls[c].result = "true"

RunCalls == {c \in DOMAIN calls : calls[c].cmd = "run"}

DeactivateCalls == {c \in DOMAIN calls : calls[c].cmd = "deactivate"}

\* run_cmd returned a value for call c
Returned(c) == calls[c].result \in {"true", "false"}

\* one main run step for DirectDIA, one per input file for Convert
ExpectedRuns == IF workflow = "direct" THEN 1 ELSE total

\* the workflow coroutine is at an await or has ended
AtAwaitOrEnd == pc \in SuspendedPcs \cup {"ended"}

C2_DeactivateAfterCancelledRun ==
    (/\ pc = "ended"
     /\ ActivationSucceeded
     /\ \E c \in RunCalls : calls[c].result = "cancelled")
    => DeactivateCalls # {}

\* C3: a workflow that returns after the Deactivating stage returns the
\* conjunction of the activation result and the results of its run steps (one
\* for DirectDIA, one per file for Convert), whatever deactivate returned.
C3_SuccessIsConjunction ==
    rc \in {"True", "False"}
    => /\ (rc = "True") = (ActivationSucceeded /\ \A c \in RunCalls : calls[c].result = "true")
       /\ Cardinality(RunCalls) = ExpectedRuns
       /\ {calls[c].file : c \in RunCalls}
             = (IF workflow = "direct" THEN {0} ELSE 1..total)
       /\ \E d \in DeactivateCalls : Returned(d)

\* success although the deactivate failed
C3_Witness ==
    /\ rc = "True"
    /\ ok_visible
    /\ \E d \in DeactivateCalls : calls[d].result = "false"

\* C4: if in the Preparing stage an extraction worker failed, a Bruker folder
\* lacked its marker or the operation was cancelled, the workflow issues no
\* external-tool invocation and does not report success.
C4_NoInvocationAfterFailedPreparing ==
    (\/ \E t \in DOMAIN worker_result : worker_result[t] = "failed"
     \/ (pcC = "done" /\ thread_result = "error" /\ zip_tasks = <<>>)
     \/ cancel_event)
    => (calls = <<>> /\ rc # "True")

\* C5: a run step or a deactivate is only ever issued after the activate of the
\* same workflow run returned true; after an activate that returned false no
\* further invocation is issued and the workflow ends without success.
C5_RunOnlyAfterActivation ==
    /\ \A c \in RunCalls \cup DeactivateCalls :
         c > 1 /\ calls[1].cmd = "activate" /\ calls[1].result = "true"
    /\ \A c \in DOMAIN calls :
         (calls[c].cmd = "activate" /\ calls[c].result = "false")
         => /\ Len(calls) = c
            /\ rc # "True"
            /\ AtAwaitOrEnd => (pc = "ended" /\ rc = "None" /\ not_ok_visible)

\* the workflow ended after a failed activation, with that single invocation
C5_Witness ==
    /\ pc = "ended"
    /\ rc = "None"
    /\ Len(calls) = 1
    /\ calls[1].cmd = "activate"
    /\ calls[1].result = "false"

\* C6 as stated: after a run step returned false, every later invocation is a
\* deactivate.
C6_NoRunAfterFailedRun ==
    \A c \in RunCalls :
        calls[c].result = "false"
        => \A d \in DOMAIN calls : d > c => calls[d].cmd = "deactivate"

\* C6 amended: after a run step returned false, DirectDIA issues nothing but the
\* deactivate; Convert goes on with the run steps of the remaining files, one
\* each in table order, and issues the deactivate (as its last invocation) only
\* once every file has had its run step.
C6_RemainingFilesThenDeactivate ==
    /\ \A c \in RunCalls :
         calls[c].result = "false"
         => \A d \in DOMAIN calls :
              d > c => \/ (calls[d].cmd = "deactivate" /\ d = Len(calls))
                       \/ (/\ workflow = "convert"
                           /\ calls[d].cmd = "run"
                           /\ calls[d].file = calls[c].file + (d - c))
    /\ DeactivateCalls # {} => Cardinality(RunCalls) = ExpectedRuns

\* Convert: a failed run step, a later run step, then the deactivate
C6_Witness ==
    /\ workflow = "convert"
    /\ \E c, d \in RunCalls : c < d /\ calls[c].result = "false" /\ Returned(d)
    /\ DeactivateCalls # {}

\* C7: validate_filetable accepts a filetable exactly when its set of entry
\* types is {Thermo Raw}, {Bruker D}, {Bruker D Zip} or {Bruker D, Bruker D Zip}
\* (so a Thermo/Bruker mix, a Folder or File entry and the empty table are
\* rejected), and process_direct goes on to Preparing exactly for those.
AcceptedTypeSets == {{"Thermo Raw"}, {"Bruker D"}, {"Bruker D Zip"},
                     {"Bruker D", "Bruker D Zip"}}

C7_ValidateAcceptsOneFamily ==
    /\ validate_filetable(datafiles) = (TypesOf(datafiles) \in AcceptedTypeSets)
    /\ (workflow = "direct" /\ "data" \in fs_dirs)
       => ((pc = "preparing") = (TypesOf(datafiles) \in AcceptedTypeSets))

\* process_direct rejected a Thermo / Bruker archive mix
C7_Witness ==
    /\ workflow = "direct"
    /\ pc = "ended"
    /\ log = <<"Invalid file table">>
    /\ TypesOf(datafiles) = {"Thermo Raw", "Bruker D Zip"}

\* C8: in both workflows, for a filetable that fails the homogeneity check no
\* extraction task is submitted and no external-tool invocation is issued.
C8_RejectedBeforeAnyWork ==
    ~validate_filetable(datafiles) => (futures = <<>> /\ calls = <<>>)

\* C9: a Start click that the Validating stage rejects (the workflow ends in the
\* same step) leaves the directories, the copied files and the args as they
\* were, and spawns nothing.
C9_RejectionWithoutSideEffects ==
    [][(pc = "idle" /\ pc' = "ended")
       => /\ fs_dirs' = fs_dirs
          /\ fs_copied' = fs_copied
          /\ args' = BuildArgs(workflow', widgets)
          /\ calls' = calls]_vars

\* C10: when prepare_datafiles has returned or raised after all its workers ran
\* to completion without cancellation, the reader has handled exactly one Done
\* message for every archive entry.
C10_EveryDoneConsumedOnce ==
    (/\ pcC = "done"
     /\ zip_tasks # <<>>
     /\ ~cancel_event
     /\ \A t \in DOMAIN futures : futures[t] = "finished")
    => \A t \in DOMAIN zip_tasks : consumed[zip_tasks[t]] = 1

\* C11: whenever prepare_datafiles has returned normally, every Bruker D Zip
\* entry has the path of the directory its worker extracted and verified; it
\* never returns normally with an archive entry still at its original path.
C11_ArchivesExtractedOnNormalReturn ==
    (pcC = "done" /\ thread_result = "ok")
    => \A k \in DOMAIN datafiles :
         datafiles[k].type = "Bruker D Zip" => datafiles[k].path = "extracted"

\* the archives whose worker reported failure
FailedTasks == {t \in DOMAIN worker_result : worker_result[t] = "failed"}

\* C12: if at least one extraction worker reported failure (and nothing was
\* cancelled), prepare_datafiles ends by raising the aggregate error, and the
\* number of recorded errors is the number of archives whose worker failed.
C12_FailedWorkerRaisesAggregate ==
    (pcC = "done" /\ ~cancel_event /\ FailedTasks # {})
    => /\ thread_result = "error"
       /\ Len(errors) = Cardinality(FailedTasks)

\* C13: a failed archive does not abort the batch: when a worker reported
\* failure and nothing was cancelled, by the time prepare_datafiles has ended
\* every submitted task has run to completion and every entry whose worker
\* succeeded has its path and name updated.
C13_OtherEntriesUpdatedDespiteFailure ==
    (pcC = "done" /\ ~cancel_event /\ FailedTasks # {})
    => \A t \in DOMAIN futures :
         /\ futures[t] = "finished"
         /\ worker_result[t] = "ok"
            => /\ datafiles[zip_tasks[t]].path = "extracted"
               /\ datafiles[zip_tasks[t]].name = "stem"

\* C14: when the workflow is cancelled while extraction is in progress (futures
\* have been submitted), then at the step in which the workflow operation
\* returns to _on_start_click no extraction worker is still running, and the
\* value it hands back is not success.
C14_NoWorkerRunningAtCancelledReturn ==
    [][(pc = "preparing" /\ pc' = "ended" /\ cancel_event' /\ futures # <<>>)
       => /\ \A t \in DOMAIN futures' : futures'[t] # "running"
          /\ rc' # "True"]_vars

\* the Done message of zip task t
DoneOf(t, item) == item.typ = "done" /\ item.idx = zip_tasks[t]

\* C15: when the coordinator's poll finds the cancel event set while some task
\* has not finished, it leaves the loop with a cancellation in flight, having
\* cancelled exactly the tasks that had not started; from then on a running
\* task is never cancelled or killed: it stays running until it finishes, and
\* when it finishes its Done message is appended to the (still open) queue;
\* and prepare_datafiles then ends by raising the cancellation.
C15_CancelObservedWhilePending ==
    [][/\ (/\ pcC = "poll" /\ pcC' # "poll" /\ cancel_event
           /\ \E t \in DOMAIN futures : ~Settled(futures[t]))
          => /\ pending_exc' = "cancelled"
             /\ futures' = [t \in DOMAIN futures |->
                              IF futures[t] = "pending" THEN "cancelled"
                              ELSE futures[t]]
       /\ pending_exc = "cancelled"
          => \A t \in DOMAIN futures :
               futures[t] = "running"
               => \/ futures'[t] = "running"
                  \/ /\ futures'[t] = "finished"
                     /\ manager_alive
                     /\ Len(progress_q') = Len(progress_q) + 1
                     /\ DoneOf(t, progress_q'[Len(progress_q')])
       /\ (pending_exc = "cancelled" /\ pcC # "done" /\ pcC' = "done")
          => thread_result' = "cancelled"]_vars

\* the coordinator raised the cancellation after it had cancelled a task that
\* had not started and let a running one finish
C15_Witness ==
    /\ pcC = "done"
    /\ thread_result = "cancelled"
    /\ \E t \in DOMAIN futures : futures[t] = "cancelled"
    /\ \E t \in DOMAIN futures : futures[t] = "finished" /\ worker_result[t] # "none"

\* C16: the registry holds an entry for the workflow task exactly while the
\* decorated operation is under way: from its start (the accepted Start click)
\* through every stage, and no longer once it has ended by a return, a caught
\* error or the cancellation; without an entry no process is listed.
C16_RegistryEntryLifetime ==
    /\ registry.present = (pc \notin {"idle", "ended"})
    /\ ~registry.present => registry.procs = <<>>

\* the operation ended by the cancellation after its entry had listed a live
\* process (the cleanup signalled it), and the entry is gone
C16_Witness ==
    /\ pc = "ended"
    /\ rc = "cancelled"
    /\ registry = NoEntry
    /\ \E c \in DOMAIN calls : calls[c].cleanup # <<>>

CleanupPcs == {"cleanup_begin", "cleanup_sleep", "cleanup_wait", "cleanup_done"}

TerminateOps == {"terminate", "terminate_raised"}

KillOps == {"kill", "kill_raised"}

\* C17: _cleanup_processes first calls terminate on exactly the registered
\* processes that are alive and then sleeps; after the sleep it calls kill on
\* exactly those still alive; it returns only when every registered process has
\* exited; a terminate or kill call that raises changes none of this (the
\* cleanup goes on, nothing leaves it but its return or a further cancellation);
\* and however the cleanup ends, the operation ends cancelled with its entry
\* removed.
C17_CleanupTerminateKillWait ==
    [][/\ (pc = "cleanup_begin" /\ pc' # pc)
          => /\ pc' \in {"cleanup_sleep", "cleanup_done"}
             /\ pc' = "cleanup_done" <=> Registered = {}
             /\ \A c \in Registered :
                  IF Exited(c) THEN calls'[c] = calls[c]
                  ELSE calls'[c].cleanup \in {<<op>> : op \in TerminateOps}
       /\ (pc = "cleanup_sleep" /\ pc' \in CleanupPcs /\ pc' # pc)
          => /\ pc' = "cleanup_done" <=> \A c \in Registered : Exited(c)
             /\ \A c \in Registered :
                  IF Exited(c) THEN calls'[c] = calls[c]
                  ELSE /\ Len(calls[c].cleanup) = 1
                       /\ \E op \in KillOps :
                            calls'[c].cleanup = Append(calls[c].cleanup, op)
       /\ pc' = "cleanup_done"
          => \A k \in DOMAIN registry'.procs :
               calls'[registry'.procs[k]].child = "exited"
       /\ (pc \in CleanupPcs /\ pc' \notin CleanupPcs)
          => (pc' = "ended" /\ rc' = "cancelled" /\ registry' = NoEntry)]_vars

\* the cleanup has returned after a terminate call that raised and a kill call
\* on the same process, which has exited
C17_Witness ==
    /\ pc = "cleanup_done"
    /\ \E c \in Registered :
         /\ Len(calls[c].cleanup) = 2
         /\ calls[c].cleanup[1] = "terminate_raised"
         /\ Exited(c)

\* C18: at the step in which run_cmd returns from an invocation whose timeout
\* did not elapse (a cancelled invocation does not return), the value is true
\* if and only if the child was spawned and has exited with code zero.
C18_TrueIffSpawnedAndExitedZero ==
    [][(pc # "returned" /\ pc' = "returned"
        /\ calls'[Len(calls')].timeout \in {"none", "armed"})
       => (result' = (/\ calls'[Len(calls')].child = "exited"
                      /\ calls'[Len(calls')].code = 0))]_vars

\* C19: when run_cmd was given a timeout and the deadline passed while the
\* child had not exited (whether or not the child had closed its output by
\* then), a run_cmd that has returned has returned false, has logged the
\* timeout error, has killed the child, and the child has exited.
C19_TimeoutKillsAndReturnsFalse ==
    \A c \in DOMAIN calls :
        (calls[c].timeout = "elapsed" /\ Returned(c))
        => /\ calls[c].result = "false"
           /\ calls[c].killed
           /\ Exited(c)
           /\ \E i \in DOMAIN log : log[i] = "Command timed out"

\* C20: when the calling operation is cancelled while run_cmd is streaming or
\* waiting on its child, then at the step in which the cancellation leaves
\* run_cmd for the decorator the child has exited, and the invocation has
\* ended by the cancellation, not by a returned value.
C20_CancelKillsWaitsThenPropagates ==
    [][(pc \in {"stream", "wait", "cancel_wait"} /\ pc' = "cleanup_begin")
       => /\ calls'[Cur].child = "exited"
          /\ calls'[Cur].result = "cancelled"]_vars

\* ------------------------------------------------------------------ C21
\* C21: when create_subprocess_exec raises, run_cmd logs the error and returns
\* False (it does not raise), and the registry gets no handle for that call:
\* a call whose child never existed has returned false and is not registered,
\* and at its return the last log line is the error and the workflow goes on
\* from the return value.
C21_SpawnFailureReturnsFalseUnregistered ==
    \A c \in DOMAIN calls :
        calls[c].child = "none" =>
            /\ calls[c].result = "false"
            /\ c \notin Registered
            /\ (c = Cur /\ pc = "returned") =>
                   /\ result = FALSE
                   /\ log[Len(log)] = "Cannot execute command"

\* a run invocation whose spawn failed has just returned, with the activation's
\* process still registered
C21_Witness ==
    /\ pc = "returned"
    /\ calls # <<>>
    /\ calls[Cur].child = "none"
    /\ calls[Cur].cmd = "run"
    /\ Registered # {}
    /\ C21_SpawnFailureReturnsFalseUnregistered

\* ------------------------------------------------------------------ C22
\* C22: aborting is idempotent. However many times Abort is clicked while the
\* workflow runs (also during the subprocess cleanup), the operation ends in
\* the state a single abort gives: at the step that ends a cancelled operation
\* every subprocess it spawned has exited and its registry entry is gone; and
\* an Abort click with no operation running changes nothing but the
\* notification.
C22_AbortIdempotent ==
    [][/\ (pc # "ended" /\ pc' = "ended" /\ rc' = "cancelled") =>
              /\ \A c \in DOMAIN calls' : calls'[c].child \in {"none", "exited"}
              /\ registry' = NoEntry
       /\ (~running_task /\ notify' # notify
                          /\ notify' = "No processing running") =>
              UNCHANGED <<datafiles, widgets, running_task, start_enabled,
                          abort_enabled, ok_visible, not_ok_visible, fsVars,
                          wfVars, procVars, prepVars>>]_vars

\* ------------------------------------------------------------------ C23
Range(seq) == {seq[i] : i \in DOMAIN seq}

\* the flags of the external tool in the order _parse_args emits them
FlagOrder == <<"-setTemp", "--importModRepository", "--importEnzymeDB", "-n",
               "-con", "-s", "-rs", "-fasta", "-go", "-o", "--verbose",
               "--writeParquet", "--terminateAfterError", "-segmented">>

FlagRank(f) == CHOOSE i \in DOMAIN FlagOrder : FlagOrder[i] = f

\* the text options of the operation with their flags
TextOptions ==
    {<<"-setTemp", args.temp_directory>>,
     <<"--importModRepository", args.opt["mod_repository"]>>,
     <<"--importEnzymeDB", args.opt["enzyme_database"]>>,
     <<"-n", args.experiment_name>>,
     <<"-con", args.condition_file>>,
     <<"-s", args.properties_file>>,
     <<"-rs", args.opt["report_file"]>>,
     <<"-fasta", args.fasta_file>>,
     <<"-go", args.opt["go_file"]>>,
     <<"-o", args.output_directory>>}

\* the checkboxes of the page with their flags (the convert page has no
\* parquet checkbox)
BoxOptions ==
    {<<"--verbose", widgets.verbose>>,
     <<"--writeParquet", IF workflow = "direct" THEN widgets.parquet ELSE "False">>,
     <<"--terminateAfterError", widgets.error_term>>,
     <<"-segmented", widgets.segmented>>}

\* C23: once the argument vector is assembled, every optional flag is in it
\* exactly when its text option is non-empty (followed by that text) or its
\* checkbox is checked, the flags stand in one fixed order, and no element is
\* the empty string; so -segmented is passed only when the segmented checkbox
\* is checked.
C23_FlagsIffOptionsSet ==
    stage # "none" =>
        LET v == args.args_list
        IN  /\ \A o \in TextOptions :
                  /\ (o[1] \in Range(v)) <=> (o[2] # "")
                  /\ (o[2] # "") =>
                         \E i \in 1..(Len(v) - 1) : v[i] = o[1] /\ v[i + 1] = o[2]
            /\ \A o \in BoxOptions : (o[1] \in Range(v)) <=> (o[2] = "True")
            /\ "" \notin Range(v)
            /\ \A i, j \in DOMAIN v :
                  (i < j /\ v[i] \in Range(FlagOrder) /\ v[j] \in Range(FlagOrder))
                      => FlagRank(v[i]) < FlagRank(v[j])

\* ------------------------------------------------------------------ C24
\* rows of the written file in the (fraction, condition) group of row k
GroupOf(k) ==
    {j \in DOMAIN fs_condition :
        /\ fs_condition[j].fraction = fs_condition[k].fraction
        /\ fs_condition[j].condition = fs_condition[k].condition}

BlankRows == {k \in DOMAIN datafiles : IsBlank(datafiles[k].replicate)}

Warned == "Only some replicates were assigned" \in Range(log)

\* C24: in the condition file written, blank fractions and conditions are the
\* placeholder; if every replicate of the table is blank, the rows of each
\* (fraction, condition) group carry 1..k in table order and nothing is warned;
\* if only some are blank, every replicate is as entered and a warning is
\* logged; if none is blank, every replicate is as entered and nothing is
\* warned.
C24_ReplicateRule ==
    fs_condition # <<>> =>
        /\ Len(fs_condition) = Len(datafiles)
        /\ \A k \in DOMAIN fs_condition :
              /\ fs_condition[k].fraction =
                     (IF datafiles[k].fraction = "" THEN "NA" ELSE datafiles[k].fraction)
              /\ fs_condition[k].condition =
                     (IF datafiles[k].condition = "" THEN "NA" ELSE datafiles[k].condition)
        /\ IF BlankRows = DOMAIN datafiles
           THEN /\ \A k \in DOMAIN fs_condition :
                      /\ {fs_condition[j].replicate : j \in GroupOf(k)}
                             = {Str(i) : i \in 1..Cardinality(GroupOf(k))}
                      /\ fs_condition[k].replicate
                             = Str(Cardinality({j \in GroupOf(k) : j <= k}))
                /\ ~Warned
           ELSE /\ \A k \in DOMAIN fs_condition :
                      fs_condition[k].replicate = datafiles[k].replicate
                /\ Warned <=> (BlankRows # {})

\* a written file for a table of blank replicates with a group of two rows
\* around a row of another group, and one for a half-filled table
C24_Witness ==
    /\ fs_condition # <<>>
    /\ Len(datafiles) = 3
    /\ BlankRows = DOMAIN datafiles
    /\ GroupOf(1) = {1, 3}
    /\ fs_condition[3].replicate = "2"
    /\ fs_condition[2].replicate = "1"
    /\ ~Warned

\* ------------------------------------------------------------------ C25
\* the Done messages of task t that are on the channel
DonesQueued(t) == {i \in DOMAIN progress_q : DoneOf(t, progress_q[i])}

\* C25: while the channel exists, a worker that ran and returned has put
\* exactly one Done message for its index (still queued or already taken by
\* the reader), on the failing paths as on the successful one, and the message
\* carries what the worker returned; a task that has not returned yet, or was
\* cancelled before it started, has put none.
C25_OneDonePerStartedWorker ==
    manager_alive =>
        \A t \in DOMAIN futures :
            /\ Cardinality(DonesQueued(t)) + consumed[zip_tasks[t]]
                   = (IF futures[t] = "finished" THEN 1 ELSE 0)
            /\ \A i \in DonesQueued(t) :
                   /\ progress_q[i].success = (worker_result[t] = "ok")
                   /\ progress_q[i].real_path
                          = (IF worker_result[t] = "ok" THEN "extracted" ELSE "")

\* one worker has failed and returned with its Done message on the channel,
\* another task was cancelled before it started
C25_Witness ==
    /\ manager_alive
    /\ \E t, u \in DOMAIN futures :
          /\ futures[t] = "finished"
          /\ worker_result[t] = "failed"
          /\ DonesQueued(t) # {}
          /\ futures[u] = "cancelled"
          /\ DonesQueued(u) = {}

\* ------------------------------------------------------------------ C26
\* the channel was created for this run and has been shut down
ChannelClosed == zip_tasks # <<>> /\ ~manager_alive

\* C26: whenever the Progress Channel has been shut down, the coordinator is
\* past the pool shutdown and every task has settled: no worker is running (or
\* still to run) against a closed channel, whether the coordinator ends
\* normally, with the aggregate error or by cancellation.
C26_ChannelOutlivesWorkers ==
    ChannelClosed =>
        /\ pcC = "done"
        /\ \A t \in DOMAIN futures : Settled(futures[t])

\* the channel is closed at the end of a cancelled extraction in which a
\* worker had started
C26_Witness ==
    /\ ChannelClosed
    /\ thread_result = "cancelled"
    /\ \E t \in DOMAIN futures : futures[t] = "finished"

\* ------------------------------------------------------------------ C27
\* positions of the coordinator in its teardown: the flag is set and the
\* not-started futures are cancelled / the bounded wait is over / the pool is
\* shut down
FlagSet == pcC \in {"finally_wait", "shutdown", "join", "manager_shutdown"}
             \/ (pcC = "done" /\ zip_tasks # <<>>)

PoolShutDown == pcC \in {"join", "manager_shutdown"}
                  \/ (pcC = "done" /\ zip_tasks # <<>>)

\* the order of the first four teardown steps
TeardownHead ==
    /\ FlagSet => /\ should_exit
                  /\ \A t \in DOMAIN futures : futures[t] # "pending"
    /\ PoolShutDown => \A t \in DOMAIN futures : Settled(futures[t])
    /\ pcC \in {"finally", "finally_wait", "shutdown"} => manager_alive

\* C27: the teardown runs in the order stop flag, cancel the not-started
\* futures, bounded wait, pool shutdown, channel close, reader join: when the
\* coordinator comes to join the reader, the channel has been closed.
C27_TeardownOrderJoinLast ==
    /\ TeardownHead
    /\ pcC = "join" => ChannelClosed

\* C27 as the code has it: stop flag, cancel the not-started futures, bounded
\* wait, pool shutdown, reader join, and the channel close last: the channel
\* is open when the coordinator joins the reader and is closed only once the
\* join is over.
C27_TeardownOrderChannelLast ==
    /\ TeardownHead
    /\ pcC \in {"join", "manager_shutdown"} => manager_alive
    /\ ChannelClosed => pcC = "done"

\* on the cancellation path the reader has been joined and has exited, the
\* pool is shut down, and the channel is still open
C27_Witness ==
    /\ pcC = "manager_shutdown"
    /\ pcR = "exited"
    /\ pending_exc = "cancelled"
    /\ manager_alive
    /\ \E t \in DOMAIN futures : futures[t] = "finished"
    /\ \E t \in DOMAIN futures : futures[t] = "cancelled"

\* ------------------------------------------------------------------ C28
\* prepare_datafiles has raised the missing-marker error (the aggregate error
\* needs archive tasks, which are listed only after a successful scan)
MarkerFailure == thread_result = "error" /\ zip_tasks = <<>>

\* C28: once prepare_datafiles has failed on a Bruker D folder without its
\* marker file, it has ended with no manager queue, reader thread, pool task
\* or message ever created, and every Bruker D Zip entry has the path and
\* name it had.
C28_MissingMarkerFailsFast ==
    MarkerFailure =>
        /\ pcC = "done"
        /\ ~manager_alive
        /\ pcR = "not_started"
        /\ futures = <<>>
        /\ progress_q = <<>>
        /\ ~progress_visible
        /\ \A k \in DOMAIN datafiles :
              datafiles[k].type = "Bruker D Zip" =>
                  datafiles[k].path = "orig" /\ datafiles[k].name = "name"

\* the marker check failed on a table that also holds an archive, and the
\* workflow has ended on the error
C28_Witness ==
    /\ MarkerFailure
    /\ \E k \in DOMAIN datafiles : datafiles[k].type = "Bruker D Zip"
    /\ \E k \in DOMAIN datafiles : datafiles[k].type = "Bruker D"
    /\ pc = "ended"
    /\ rc = "None"

ExtractionInProgress ==
    pcC \in {"poll", "finally", "finally_wait", "shutdown", "join",
             "manager_shutdown"}

\* C30: while an extraction is in progress, every step that changes the
\* filetable or the progress fraction is a step of the reader thread or of the
\* coordinator: no worker and no UI handler writes to them.
C30_SingleWriter ==
    [][(ExtractionInProgress
          /\ (datafiles' # datafiles \/ progress_value' # progress_value))
       => (pcR' # pcR \/ pcC' # pcC)]_vars

\* ------------------------------------------------------------------ C31
\* C31: an operation that observed a cancellation, in whatever stage, hands the
\* outcome to its caller only after the registry cleanup for its handle has
\* run to its end (for a handle without processes the cleanup has nothing to
\* run): the step that ends such an operation starts where _cleanup_processes
\* has returned.
C31_CleanupCompletesBeforePropagation ==
    [][(pc # "ended" /\ pc' = "ended" /\ (rc' = "cancelled" \/ cancel_event'))
       => (pc = "cleanup_done" \/ Registered = {})]_vars

\* ------------------------------------------------------------------ C32
\* C32: whenever run_cmd has returned a value for an invocation whose child
\* was spawned, that child has exited, also when the return comes from an
\* exception raised while its output was read or logged.
C32_ReturnedImpliesChildExited ==
    \A c \in DOMAIN calls :
        (Returned(c) /\ calls[c].child # "none") => calls[c].child = "exited"

\* ------------------------------------------------------------------ C33
\* C33: whenever the reader handles a Done message, the index it carries is
\* within the filetable and the entry at that index is the one the extraction
\* task was created from (the entry added as row `index`), whatever the table
\* handlers of the page did in between.
C33_DoneUpdatesItsOwnEntry ==
    [][(/\ pcR = "get"
        /\ pcR' # pcR
        /\ manager_alive
        /\ progress_q # <<>>
        /\ Head(progress_q).typ = "done")
       => (/\ Head(progress_q).idx \in DOMAIN datafiles
           /\ datafiles[Head(progress_q).idx].id = Head(progress_q).idx)]_vars

\* ------------------------------------------------------------------ C34
\* C34: once a workflow cancelled during preparation has returned to its
\* caller, the extraction thread and its reader thread have terminated, and no
\* later step changes an entry of the filetable or the progress value.
C34_NothingChangesAfterCancelledReturn ==
    [][(pc = "ended" /\ cancel_event)
       => /\ pcC \in {"not_started", "done"}
          /\ pcR \in {"not_started", "exited"}
          /\ datafiles' = datafiles
          /\ progress_value' = progress_value]_vars

\* --------------------------- specification of a worker pool that fails
\* helpers.py 187-239, 261-262: the scan found archives, the manager queue, the
\* counters and the reader thread are set up, and ProcessPoolExecutor(...)
\* raises an exception other than a cancellation: executor stays None and
\* futures stays [], the handler logs the exception at debug level and the
\* finally block runs with no exception in flight.
PrepStartPoolFails ==
    /\ pcC = "scan"
    /\ IndicesOfType(datafiles, "Bruker D", 1) = <<>>
    /\ IndicesOfType(datafiles, "Bruker D Zip", 1) # <<>>
    /\ zip_tasks' = IndicesOfType(datafiles, "Bruker D Zip", 1)
    /\ manager_alive' = TRUE
    /\ progress_visible' = TRUE
    /\ progress_value' = 0
    /\ pcR' = "check"
    /\ futures' = <<>>
    /\ worker_result' = <<>>
    /\ pending_exc' = "none"
    /\ pcC' = "finally"
    /\ UNCHANGED <<datafiles, uiVars, fsVars, wfVars, procVars, cancel_event,
                   should_exit, progress_q, done_counter, errors, consumed,
                   thread_result>>

\* process_direct through Preparing and Writing on tables of archives, where
\* the creation of the pool may fail
NextPoolFailure ==
    \/ StartClick("direct")
    \/ PrepStart
    \/ PrepStartPoolFails
    \/ PrepPoll
    \/ PrepFinallyFlag
    \/ PrepFinallyWait
    \/ PrepShutdown
    \/ PrepJoin
    \/ PrepManagerShutdown
    \/ ReaderCheck
    \/ ReaderGet
    \/ \E t \in 1..MaxFiles : WorkerStart(t)
    \/ \E t \in 1..MaxFiles : WorkerFinish(t)
    \/ PrepareDone
    \/ WritingDone

SpecPoolFailure == InitTableEdit /\ [][NextPoolFailure]_vars

\* ------------------------------------------------------------------ C35
\* the pool failed: archives were found and no task was ever submitted
PoolFailed == zip_tasks # <<>> /\ futures = <<>>

\* C35: when the worker pool itself failed, prepare_datafiles ends in failure;
\* it does not return normally while an archive entry of the filetable was not
\* extracted.
C35_PoolFailureEndsInFailure ==
    (pcC = "done" /\ PoolFailed)
    => /\ thread_result # "ok"
       /\ pc \notin {"writing", "building"}

\* ------------------ specification of the destinations of the extraction tasks
\* the paths the file picker can hand over: two archives of the same file name
\* in different directories, a third archive and a raw file
Paths == {"/a/x.d.zip", "/b/x.d.zip", "/a/y.d.zip", "/a/r.raw"}

\* Path(p).name: the last component of the path
PathName(p) ==
    CASE p \in {"/a/x.d.zip", "/b/x.d.zip"} -> "x.d.zip"
      [] p = "/a/y.d.zip" -> "y.d.zip"
      [] p = "/a/r.raw" -> "r.raw"

\* Path(n).stem: the name without its last suffix
PathStem(n) ==
    CASE n = "x.d.zip" -> "x.d"
      [] n = "y.d.zip" -> "y.d"
      [] n = "r.raw" -> "r"
      [] OTHER -> n

\* main.py 65-75 for existing files: the type follows from the suffixes
check_type(p) ==
    IF PathName(p) \in {"x.d.zip", "y.d.zip"} THEN "Bruker D Zip"
    ELSE IF PathName(p) = "r.raw" THEN "Thermo Raw"
    ELSE "File"

\* the order of the names as strings
NameRank(n) == CASE n = "r.raw" -> 1 [] n = "x.d.zip" -> 2 [] n = "y.d.zip" -> 3

\* main.py 80: paths.sort(key=lambda r: Path(r).name or r), a stable sort
RECURSIVE SortByName(_)
SortByName(paths) ==
    IF paths = <<>> THEN <<>>
    ELSE LET rest == SortByName(SubSeq(paths, 1, Len(paths) - 1))
             p == paths[Len(paths)]
             before == SelectSeq(rest, LAMBDA q : NameRank(PathName(q)) <= NameRank(PathName(p)))
             after == SelectSeq(rest, LAMBDA q : NameRank(PathName(q)) > NameRank(PathName(p)))
         IN  before \o <<p>> \o after

\* main.py 82-95: the loop over the sorted paths; a path already in the table
\* is skipped
RECURSIVE AppendNew(_, _)
AppendNew(paths, table) ==
    IF paths = <<>> THEN table
    ELSE LET p == Head(paths)
         IN  IF \E k \in DOMAIN table : table[k].path = p
             THEN AppendNew(Tail(paths), table)
             ELSE AppendNew(Tail(paths),
                     Append(table, [Entry(Len(table) + 1, check_type(p)) EXCEPT
                                        !.path = p, !.name = PathName(p)]))

\* main.py 77-102: the handler of a file picker, while no workflow runs
add_to_datafiles(paths) ==
    /\ pc = "idle"
    /\ datafiles' = AppendNew(SortByName(paths), datafiles)
    /\ notify' = "Added " \o (IF Len(datafiles') = Len(datafiles) THEN "0"
                              ELSE Str(Len(datafiles') - Len(datafiles))) \o " items"
    /\ UNCHANGED <<widgets, running_task, start_enabled, abort_enabled,
                   ok_visible, not_ok_visible, fsVars, wfVars, procVars, prepVars>>

\* helpers.py 241: Path(data_folder).joinpath(Path(file['name']).stem), with
\* data_folder = output_directory/data (main.py 200)
Destination(file) == args.output_directory \o "/data/" \o PathStem(file.name)

InitDestinations == InitWith({<<>>}, Forms, {{}})

NextDestinations ==
    \/ \E paths \in SeqsUpTo(Paths, MaxFiles) : add_to_datafiles(paths)
    \/ StartClick("direct")
    \/ PrepStart

SpecDestinations == InitDestinations /\ [][NextDestinations]_vars

\* ------------------------------------------------------------------ C36
PairwiseDistinctPaths ==
    \A j, k \in DOMAIN datafiles : j # k => datafiles[j].path # datafiles[k].path

\* C36: when the filetable has pairwise distinct paths, the extraction tasks
\* prepare_datafiles creates from it have pairwise distinct destination
\* directories.
C36_DistinctDestinations ==
    [][(pcC = "scan" /\ pcC' = "poll" /\ PairwiseDistinctPaths)
       => \A t, u \in DOMAIN zip_tasks' :
            t # u => Destination(datafiles[zip_tasks'[t]])
                       # Destination(datafiles[zip_tasks'[u]])]_vars

\* ------------------------ specification of a second run on a prepared table
\* helpers.py 178, 223-224: the filetable a successful prepare_datafiles leaves
\* behind: an archive entry has the extracted directory as its path and the
\* stem as its name and keeps its type; the other entries are as they were
Prepared(ft) ==
    [k \in DOMAIN ft |->
        IF ft[k].type = "Bruker D Zip"
        THEN [ft[k] EXCEPT !.path = "extracted", !.name = "stem"]
        ELSE ft[k]]

\* helpers.py 108-125 with the path the task was submitted with: the path of
\* an entry that was extracted before is a directory, zipfile.ZipFile raises on
\* it and the worker reports failure
WorkerFinishOnPath(t) ==
    /\ WorkerFinish(t)
    /\ datafiles[zip_tasks[t]].path # "orig" => worker_result'[t] = "failed"

\* the page when Start is clicked again after a run that prepared the table:
\* the directories of the first run exist
InitRerun == InitWith({Prepared(ft) : ft \in Tables}, Forms, {{"out", "data", "params"}})

NextRerun ==
    \/ \E wf \in Workflows : StartClick(wf)
    \/ PrepStart
    \/ PrepPoll
    \/ PrepFinallyFlag
    \/ PrepFinallyWait
    \/ PrepShutdown
    \/ PrepJoin
    \/ PrepManagerShutdown
    \/ ReaderCheck
    \/ ReaderGet
    \/ \E t \in 1..MaxFiles : WorkerStart(t)
    \/ \E t \in 1..MaxFiles : WorkerFinishOnPath(t)
    \/ PrepareDone

SpecRerun == InitRerun /\ [][NextRerun]_vars

\* ------------------------------------------------------------------ C37
\* C37: prepare_datafiles run on a filetable that an earlier run prepared (and
\* whose Bruker D markers are still there) ends normally, and every entry still
\* has the path and the name the earlier run gave it.
C37_SecondRunSucceeds ==
    (pcC = "done" /\ ~(thread_result = "error" /\ zip_tasks = <<>>))
    => /\ thread_result = "ok"
       /\ datafiles \in {Prepared(ft) : ft \in Tables}

\* ---------------- specification of concurrent operations and the registry
\* run_cmd invocations one operation may issue
MaxSpawns == 2

\* variant: a key that is the same for every task
HandleOf_shared(t) == 1

\* helpers.py 31, 91: id(asyncio.current_task()); distinct for tasks that are
\* alive at the same time
HandleOf(t) == t

\* dict without a key (pop(key, None))
Pop(d, h) == [k \in DOMAIN d \ {h} |-> d[k]]

\* the children of task t that have not exited
LiveChildrenOf(t) ==
    {p \in DOMAIN children : children[p].owner = t /\ children[p].state = "running"}

\* proc.terminate() / proc.kill() sent by task t to the children in ps whose
\* returncode is None
Signal(ps, t) ==
    [p \in DOMAIN children |->
        IF p \in ps /\ children[p].state = "running"
        THEN [children[p] EXCEPT !.by = @ \cup {t}]
        ELSE children[p]]

\* _active_processes.get(task_id, []) as a set of children
ProcessesOf(t) ==
    IF HandleOf(t) \in DOMAIN _active_processes
    THEN {_active_processes[HandleOf(t)][i] : i \in DOMAIN _active_processes[HandleOf(t)]}
    ELSE {}

TaskFrame == UNCHANGED <<datafiles, uiVars, fs_dirs, fs_copied, fs_condition,
                         wfVars, procVars, prepVars>>

\* helpers.py 29-35: the wrapper creates the entry and awaits the operation
TaskStart(t) ==
    /\ task_pc[t] = "idle"
    /\ _active_processes' =
          [h \in DOMAIN _active_processes \cup {HandleOf(t)} |->
              IF h = HandleOf(t) THEN <<>> ELSE _active_processes[h]]
    /\ task_pc' = [task_pc EXCEPT ![t] = "running"]
    /\ UNCHANGED children
    /\ TaskFrame

\* helpers.py 372-374, 85-94: run_cmd spawns a child and registers it under
\* the handle of the current task, if that handle has an entry; an operation
\* issues its run_cmd calls one after the other
TaskSpawn(t) ==
    /\ task_pc[t] = "running"
    /\ LiveChildrenOf(t) = {}
    /\ Cardinality({p \in DOMAIN children : children[p].owner = t}) < MaxSpawns
    /\ children' = Append(children, [owner |-> t, state |-> "running", by |-> {}])
    /\ _active_processes' =
          IF HandleOf(t) \in DOMAIN _active_processes
          THEN [_active_processes EXCEPT ![HandleOf(t)] = Append(@, Len(children) + 1)]
          ELSE _active_processes
    /\ UNCHANGED task_pc
    /\ TaskFrame

\* a child exits, on its own or after a signal
TaskChildExit(p) ==
    /\ p \in DOMAIN children
    /\ children[p].state = "running"
    /\ children' = [children EXCEPT ![p].state = "exited"]
    /\ UNCHANGED <<task_pc, _active_processes>>
    /\ TaskFrame

\* helpers.py 35-36, 41-44: the operation returns (its last run_cmd has waited
\* for its child); the finally block pops the entry
TaskReturn(t) ==
    /\ task_pc[t] = "running"
    /\ LiveChildrenOf(t) = {}
    /\ _active_processes' = Pop(_active_processes, HandleOf(t))
    /\ task_pc' = [task_pc EXCEPT ![t] = "ended"]
    /\ UNCHANGED children
    /\ TaskFrame

\* task.cancel() delivered at an await of the operation: inside run_cmd the
\* handler kills the child it is waiting for and awaits its exit (helpers.py
\* 409-418); otherwise the wrapper's handler runs at once
TaskCancel(t) ==
    /\ task_pc[t] = "running"
    /\ children' = Signal(LiveChildrenOf(t), t)
    /\ task_pc' = [task_pc EXCEPT ![t] = IF LiveChildrenOf(t) = {} THEN "cleanup"
                                         ELSE "cancel_wait"]
    /\ UNCHANGED _active_processes
    /\ TaskFrame

\* helpers.py 417-418: process.wait() returns, the cancellation goes on
TaskCancelWaitDone(t) ==
    /\ task_pc[t] = "cancel_wait"
    /\ LiveChildrenOf(t) = {}
    /\ task_pc' = [task_pc EXCEPT ![t] = "cleanup"]
    /\ UNCHANGED <<_active_processes, children>>
    /\ TaskFrame

\* helpers.py 50-67: _cleanup_processes reads the list of the handle; an empty
\* list ends the cleanup (and the finally block pops the entry), otherwise
\* every child of the list that has not exited is terminated
TaskCleanupBegin(t) ==
    /\ task_pc[t] = "cleanup"
    /\ IF ProcessesOf(t) = {}
       THEN /\ _active_processes' = Pop(_active_processes, HandleOf(t))
            /\ task_pc' = [task_pc EXCEPT ![t] = "ended"]
            /\ UNCHANGED children
       ELSE /\ children' = Signal(ProcessesOf(t), t)
            /\ task_pc' = [task_pc EXCEPT ![t] = "cleanup_sleep"]
            /\ UNCHANGED _active_processes
    /\ TaskFrame

\* helpers.py 69-75: after the sleep, kill what has still not exited
TaskCleanupKill(t) ==
    /\ task_pc[t] = "cleanup_sleep"
    /\ children' = Signal(ProcessesOf(t), t)
    /\ task_pc' = [task_pc EXCEPT ![t] = "cleanup_wait"]
    /\ UNCHANGED _active_processes
    /\ TaskFrame

\* helpers.py 77-83, 40-44: every child of the list has been waited for; the
\* cancellation is re-raised and the finally block pops the entry
TaskCleanupDone(t) ==
    /\ task_pc[t] = "cleanup_wait"
    /\ \A p \in ProcessesOf(t) : children[p].state = "exited"
    /\ _active_processes' = Pop(_active_processes, HandleOf(t))
    /\ task_pc' = [task_pc EXCEPT ![t] = "ended"]
    /\ UNCHANGED children
    /\ TaskFrame

\* a second task.cancel() while a handler is suspended (helpers.py 67, 81,
\* 417): the handler is left, only the finally block runs
TaskCancelAgain(t) ==
    /\ task_pc[t] \in {"cancel_wait", "cleanup_sleep", "cleanup_wait"}
    /\ _active_processes' = Pop(_active_processes, HandleOf(t))
    /\ task_pc' = [task_pc EXCEPT ![t] = "ended"]
    /\ UNCHANGED children
    /\ TaskFrame

InitTasks == InitWith({<<>>}, Forms, {{}})

NextTasks ==
    \/ \E t \in Tasks : TaskStart(t)
    \/ \E t \in Tasks : TaskSpawn(t)
    \/ \E p \in 1..(Cardinality(Tasks) * MaxSpawns) : TaskChildExit(p)
    \/ \E t \in Tasks : TaskReturn(t)
    \/ \E t \in Tasks : TaskCancel(t)
    \/ \E t \in Tasks : TaskCancelWaitDone(t)
    \/ \E t \in Tasks : TaskCleanupBegin(t)
    \/ \E t \in Tasks : TaskCleanupKill(t)
    \/ \E t \in Tasks : TaskCleanupDone(t)
    \/ \E t \in Tasks : TaskCancelAgain(t)

SpecTasks == InitTasks /\ [][NextTasks]_vars

\* ------------------------------------------------------------------ C38
\* the tasks whose operation is between the creation and the removal of its
\* registry entry
LiveTasks == {t \in Tasks : task_pc[t] \notin {"idle", "ended"}}

\* C38: with operations running concurrently in different tasks, every child
\* is registered under the handle of the operation that spawned it and under
\* no other, a child is only ever signalled by the operation that spawned it,
\* and the entry of an operation is there, with every child it spawned, as long
\* as that operation has not ended, whatever the other operation does.
C38_RegistryIsolation ==
    /\ \A h \in DOMAIN _active_processes :
          \A i \in DOMAIN _active_processes[h] :
              HandleOf(children[_active_processes[h][i]].owner) = h
    /\ \A p \in DOMAIN children : children[p].by \subseteq {children[p].owner}
    /\ \A t \in LiveTasks :
          /\ HandleOf(t) \in DOMAIN _active_processes
          /\ {p \in DOMAIN children : children[p].owner = t} = ProcessesOf(t)
    /\ DOMAIN _active_processes = {HandleOf(t) : t \in LiveTasks}

\* one operation was cancelled and has ended with its child killed, while the
\* other still runs with its own child registered, running and never signalled
C38_Witness ==
    \E t, u \in Tasks :
        /\ task_pc[t] = "ended"
        /\ \E p \in DOMAIN children : children[p].owner = t /\ children[p].by = {t}
        /\ task_pc[u] = "running"
        /\ \E q \in ProcessesOf(u) :
              /\ children[q].owner = u
              /\ children[q].state = "running"
              /\ children[q].by = {}

\* ------------------------------------------------------------------ C39
\* C39: while the workflow of the page runs (from the Start click to its end)
\* running_task is set, Start is disabled and Abort is enabled; once it has
\* ended, by a return, a rejection or a cancellation, running_task is None,
\* Start is enabled and Abort is disabled; so Start cannot be clicked while a
\* workflow runs, and the success mark is shown only for a workflow that has
\* ended and returned success.
C39_ButtonsFollowTheWorkflow ==
    /\ pc \notin {"idle", "ended"}
          => (running_task /\ ~start_enabled /\ abort_enabled)
    /\ pc \in {"idle", "ended"}
          => (~running_task /\ start_enabled /\ ~abort_enabled)
    /\ ok_visible => (pc = "ended" /\ rc = "True")
    /\ pc = "ended" => (not_ok_visible <=> ~ok_visible)

\* a workflow that spawned a child has ended by the cancellation: the page is
\* reset and shows the error mark
C39_Witness ==
    /\ pc = "ended"
    /\ rc = "cancelled"
    /\ calls # <<>>
    /\ ~running_task
    /\ start_enabled
    /\ ~abort_enabled
    /\ not_ok_visible

\* --------------------------- specification of the extraction with fairness
\* process_direct through Preparing, with Abort clicked during the extraction. The coordinator thread
\* and the reader thread keep being scheduled (every wait of theirs has a
\* timeout: helpers.py 210, 245, 277, 286), the pool hands a task that has not
\* started to a free worker, and a worker that has started finishes.
AbortWhilePreparing == pc = "preparing" /\ AbortClick

NextLive ==
    \/ StartClick("direct")
    \/ AbortWhilePreparing
    \/ PrepStart
    \/ PrepPoll
    \/ PrepFinallyFlag
    \/ PrepFinallyWait
    \/ PrepShutdown
    \/ PrepJoin
    \/ PrepManagerShutdown
    \/ ReaderCheck
    \/ ReaderGet
    \/ \E t \in 1..MaxFiles : WorkerStart(t)
    \/ \E t \in 1..MaxFiles : WorkerFinish(t)
    \/ PrepareDone

\* the steps of the thread that runs prepare_datafiles, one after the other
Coordinator ==
    \/ PrepStart
    \/ PrepPoll
    \/ PrepFinallyFlag
    \/ PrepFinallyWait
    \/ PrepShutdown
    \/ PrepJoin
    \/ PrepManagerShutdown

\* the steps of the reader thread
Reader == ReaderCheck \/ ReaderGet

Fairness ==
    /\ WF_vars(Coordinator)
    /\ WF_vars(Reader)
    /\ \A t \in 1..MaxFiles : WF_vars(WorkerStart(t))
    /\ \A t \in 1..MaxFiles : WF_vars(WorkerFinish(t))

SpecLive == Init /\ [][NextLive]_vars /\ Fairness

\* ------------------------------------------------------------------ C40
\* prepare_datafiles has returned or raised
PrepareEnded == pcC = "done" /\ thread_result \in {"ok", "error", "cancelled"}

\* the reader thread runs
ReaderRuns == pcR \in {"check", "get"}

\* C40 as stated: prepare_datafiles eventually returns or raises, its reader
\* thread eventually terminates, and once the cancel event is set while a task
\* has not started the coordinator eventually ends with the cancellation.
C40_CancelSetLeadsToCancelled ==
    /\ (pcC = "scan") ~> PrepareEnded
    /\ ReaderRuns ~> (pcR = "exited")
    /\ (pcC = "poll" /\ cancel_event /\ \E t \in DOMAIN futures : futures[t] = "pending")
          ~> (pcC = "done" /\ thread_result = "cancelled")

\* C40, amended: prepare_datafiles eventually returns or raises, its reader
\* thread eventually terminates, and once the coordinator's poll has found the
\* cancel event set with a task unfinished, it eventually ends with the
\* cancellation and no task that had not started is run any more.
C40_Terminates ==
    /\ (pcC = "scan") ~> PrepareEnded
    /\ ReaderRuns ~> (pcR = "exited")
    /\ (pending_exc = "cancelled") ~> (pcC = "done" /\ thread_result = "cancelled")
    /\ [][pending_exc = "cancelled"
          => \A t \in DOMAIN futures : futures[t] # "running" => futures'[t] # "running"]_vars

\* the coordinator has ended with the cancellation and the reader has exited,
\* while a task that never started stays cancelled
C40_Witness ==
    /\ pcC = "done"
    /\ thread_result = "cancelled"
    /\ pcR = "exited"
    /\ \E t \in DOMAIN futures : futures[t] = "cancelled" /\ worker_result[t] = "none"

====
